---- MODULE Spec2Model ----
(***************************************************************************)
(* HyperInfer: the coordination fabric between the data plane (client)     *)
(* and the control plane (server).  This module models                     *)
(*   - the rate limiter (RPM fixed window and TPM GCRA scripts evaluated   *)
(*     atomically at the shared store, the cumulative usage counters),     *)
(*   - the router (alias table, provider inference, default provider),     *)
(*   - the client orchestrator's chat() request path.                      *)
(* Times are milliseconds.  The GCRA script computes in Lua doubles; the   *)
(* model keeps the theoretical arrival time as an exact rational with the  *)
(* fixed denominator TatDen.                                               *)
(***************************************************************************)
EXTENDS Integers, Sequences, FiniteSets, Bags, TLC

\* ------------------------------------------------------------------ bounds
MaxOps == 2          \* operations started in one behaviour of Spec
MaxTicks == 1        \* clock advances in one behaviour of Spec
MaxSeqTicks == 1     \* clock advances in one behaviour of SpecSeq
MaxGcraTicks == 1    \* clock advances in one behaviour of SpecGcra
MaxSeqCalls == 62    \* sequential is_allowed calls in one behaviour of SpecSeq
MaxGcraCalls == 3    \* script evaluations in one behaviour of SpecGcra
MaxScriptEvals == 3  \* script evaluations in one behaviour of SpecScript
MaxScriptTicks == 1  \* clock advances in one behaviour of SpecScript
MaxChats == 2        \* chat calls in one behaviour of SpecChat
MaxChatTicks == 1    \* clock advances in one behaviour of SpecChat
MaxResolves == 2     \* resolve calls in one behaviour of SpecRouter
MaxPlaneOps == 3     \* ConfigManager calls in one behaviour of SpecPlane
MaxSubOps == 2       \* messages published in one behaviour of SpecSubs
MaxHandled == 3      \* handler invocations kept in the history of SpecConsumer
MaxHandlerFailures == 2  \* handler invocations that can fail in FairDelivery
MaxAdminOps == 3         \* requests to the admin HTTP surface
MaxWindowOps == 4        \* check_rpm calls in one behaviour of SpecWindow
MaxWindowTicks == 3      \* clock advances in one behaviour of SpecWindow
MaxRetryCalls == 3       \* check_tpm calls in one behaviour of SpecRetry
MaxRetryTicks == 2       \* clock advances in one behaviour of SpecRetry

\* ------------------------------------------------------- program constants
DefaultRpm == 60         \* RateLimiter::new, default_rpm
DefaultTpm == 100000     \* RateLimiter::new, default_tpm
MAX_BACKOFF_SECS == 60   \* telemetry_consumer.rs
XREADGROUP_COUNT == 10   \* telemetry_consumer.rs
SubBackoffCap == 60      \* (backoff * 2).min(60) in both subscriber tasks
RpmWindow == 60          \* .arg(60): the window handed to RPM_SCRIPT, seconds

None == "none"

\* =====================================================================
\* Strings.  A string is a sequence of one-character strings, so that
\* starts_with, find and to_lowercase are computed as the code computes them.
\* =====================================================================
StartsWith(s, pre) ==
    /\ Len(s) >= Len(pre)
    /\ SubSeq(s, 1, Len(pre)) = pre

\* str::find('/'): the first index of ch in s, 0 when there is none
Find(s, ch) ==
    IF \E i \in 1..Len(s) : s[i] = ch
    THEN CHOOSE i \in 1..Len(s) : s[i] = ch /\ \A j \in 1..(i - 1) : s[j] # ch
    ELSE 0

LowerChar(c) ==
    CASE c = "A" -> "a" [] c = "C" -> "c" [] c = "E" -> "e" [] c = "H" -> "h"
      [] c = "I" -> "i" [] c = "N" -> "n" [] c = "O" -> "o" [] c = "P" -> "p"
      [] c = "R" -> "r" [] c = "T" -> "t" [] c = "G" -> "g" [] c = "X" -> "x"
      [] OTHER -> c

ToLowercase(s) == [i \in 1..Len(s) |-> LowerChar(s[i])]

\* literals of router.rs
StrGptDash == <<"g", "p", "t", "-">>
StrO1Dash == <<"o", "1", "-">>
StrO3Dash == <<"o", "3", "-">>
StrClaudeDash == <<"c", "l", "a", "u", "d", "e", "-">>
StrOpenai == <<"o", "p", "e", "n", "a", "i">>
StrAnthropic == <<"a", "n", "t", "h", "r", "o", "p", "i", "c">>

OpenAI == "OpenAI"
Anthropic == "Anthropic"
Other == "Other"
Providers == {OpenAI, Anthropic, Other}

\* =====================================================================
\* Router (hyperinfer-client/src/router.rs)
\* =====================================================================
\* parse_target_model: [ok, model, provider]
parse_target_model(target) ==
    LET slash_pos == Find(target, "/") IN
    IF slash_pos # 0
    THEN LET provider_str == SubSeq(target, 1, slash_pos - 1)
             model == SubSeq(target, slash_pos + 1, Len(target))
             lower == ToLowercase(provider_str)
         IN  IF lower = StrOpenai
             THEN [ok |-> TRUE, model |-> model, provider |-> OpenAI]
             ELSE IF lower = StrAnthropic
             THEN [ok |-> TRUE, model |-> model, provider |-> Anthropic]
             ELSE [ok |-> FALSE, model |-> model, provider |-> None]
    ELSE [ok |-> TRUE, model |-> target, provider |-> None]

\* the mutant gives up the whole batch when one target does not parse
with_aliasesAllOrNothing(aliases) ==
    IF \A a \in DOMAIN aliases : parse_target_model(aliases[a]).ok
    THEN [a \in DOMAIN aliases |->
             [model |-> parse_target_model(aliases[a]).model,
              provider |-> parse_target_model(aliases[a]).provider]]
    ELSE <<>>

\* with_aliases: the alias table keeps the entries whose target parses
with_aliases(aliases) ==
    LET kept == {a \in DOMAIN aliases : parse_target_model(aliases[a]).ok} IN
    [a \in kept |-> [model |-> parse_target_model(aliases[a]).model,
                     provider |-> parse_target_model(aliases[a]).provider]]

infer_provider(model) ==
    IF StartsWith(model, StrGptDash) \/ StartsWith(model, StrO1Dash)
       \/ StartsWith(model, StrO3Dash)
    THEN OpenAI
    ELSE IF StartsWith(model, StrClaudeDash)
    THEN Anthropic
    ELSE None

\* the mutant lets inference from the model string win over the explicit provider
resolve_providerInferFirst(default_provider, explicit, model) ==
    IF infer_provider(model) # None
    THEN infer_provider(model)
    ELSE IF explicit # None
         THEN explicit
         ELSE default_provider

resolve_provider(default_provider, explicit, model) ==
    IF explicit # None
    THEN explicit
    ELSE IF infer_provider(model) # None
         THEN infer_provider(model)
         ELSE default_provider

\* Option<(String, Provider)>::None
Unresolved == [some |-> FALSE, model |-> <<>>, provider |-> None]

\* resolve: Unresolved, or Some((model, provider)).  r is the Router
\* [model_aliases, default_provider]; the _config argument is unused.
resolve(r, model) ==
    IF model \in DOMAIN r.model_aliases
    THEN LET t == r.model_aliases[model]
             provider == resolve_provider(r.default_provider, t.provider, t.model)
         IN  IF provider = None THEN Unresolved
             ELSE [some |-> TRUE, model |-> t.model, provider |-> provider]
    ELSE LET provider == resolve_provider(r.default_provider, None, model) IN
         IF provider = None THEN Unresolved
         ELSE [some |-> TRUE, model |-> model, provider |-> provider]

\* Router::new(rules).with_aliases(..).with_default_provider(..)
NewRouter(cfg) ==
    [model_aliases |-> with_aliases(cfg.model_aliases),
     default_provider |-> cfg.default_provider]


\* =====================================================================
\* State
\* =====================================================================
Procs == {"p1", "p2"}
Consumers == {"c1", "c2"}
Keys == {"k1", "k2"}

VARIABLES
    now,        \* the wall clock, ms
    ticks,      \* clock advances so far
    connected,  \* RateLimiter.redis_manager is Some
    rpm,        \* hyperinfer:ratelimit:rpm:<key>: [count, expireAt]; count 0 = no key
    tpm,        \* hyperinfer:ratelimit:tpm:<key>: [tat, expireAt]; tat -1 = no key
    usage,      \* hyperinfer:usage:{tokens,requests}:<key>: [tokens, requests]
    proc,       \* each caller's operation in progress and its last result
    nOps,       \* operations started so far
    rpmWin,     \* history: the RPM evaluations of the key's current 60 s window
    tpmLog,     \* history: the GCRA evaluations since the key was last fresh
    usageLog,   \* history: the record_usage transactions that took effect
    config,     \* the Config the client was built with (its shared snapshot)
    router,     \* HyperInferClient.router
    telemetryUp,\* Telemetry.manager is Some
    stream,     \* hyperinfer:telemetry, the entries appended so far
    spawned,    \* the XADD tasks spawned by record and not yet run (a bag)
    lastResolve,\* the last Router::resolve call: [model, config, result]
    cfgKey,     \* hyperinfer:config: [present, json]
    cfgHist,    \* history: the SETs of hyperinfer:config so far, [ver, snapshot]
    sent,       \* history: the payloads the ConfigManager has PUBLISHed
    mgr,        \* each ConfigManager caller's call in progress and its last result
    sub,        \* the subscriber task of each channel: [pc, backoff, inbox]
    policyCalls,\* the PolicyUpdates handed to the policy callback, in order
    cancelled,  \* the cancellation signal has fired
    consumer,   \* the telemetry consumer task: [pc, backoff, mode, batch, await]
    group,      \* the consumer group of hyperinfer:telemetry at the store
    db,         \* the control plane's database: [rows, next]
    admin       \* the last request of the admin HTTP surface and its response

vars == <<now, ticks, connected, rpm, tpm, usage, proc, nOps,
          rpmWin, tpmLog, usageLog,
          config, router, telemetryUp, stream, spawned, lastResolve,
          cfgKey, cfgHist, sent, mgr, sub, policyCalls, cancelled,
          consumer, group, db, admin>>

storeVars == <<rpm, tpm, usage>>
histVars == <<rpmWin, tpmLog, usageLog>>
clientVars == <<config, router, telemetryUp, stream, spawned, lastResolve>>
planeVars == <<cfgKey, cfgHist, sent, mgr, sub, policyCalls>>
consumerVars == <<consumer, group>>
adminVars == <<db, admin>>
taskVars == <<planeVars, cancelled, consumerVars, adminVars>>
limiterVars == <<now, ticks, connected, storeVars, histVars, proc, adminVars>>

\* The GCRA script divides by rate; TAT values are kept as multiples of
\* 1/TatDen ms, exact for every rate that divides TatDen.
TatDen == DefaultTpm \div 60
NoTat == 0 - 1

\* clock steps: one millisecond, and one millisecond short of the RPM window
TickSteps == {1, RpmWindow * 1000 - 1}

\* what a store round trip can do: answer, fail before the command ran, or
\* run the command and lose the reply
StoreOutcomes == {"ok", "fail_before", "fail_after"}

\* =====================================================================
\* The scripts (hyperinfer-core/src/rate_limiting.rs)
\* =====================================================================
\* redis INCR: the new value of the counter
RedisIncrLost(live, count) == IF live THEN count ELSE 1

RedisIncr(live, count) == IF live THEN count + 1 ELSE 1

\* RPM_SCRIPT(KEYS[1]; limit, window) at store time t on the key's entry e
\* the reply of RPM_SCRIPT: {0, 0, ttl} over the limit, {1, remaining, 0} else.
\* The mutant rejects the request that reaches the limit.
RpmReplyOffByOne(current, limit, ttl) ==
    IF current >= limit THEN <<0, 0, ttl>> ELSE <<1, limit - current, 0>>

RpmReply(current, limit, ttl) ==
    IF current > limit THEN <<0, 0, ttl>> ELSE <<1, limit - current, 0>>

\* The mutant slides the window: every evaluation sets the expiry.
RpmScriptSliding(e, t, limit, window) ==
    LET live == e.count > 0 /\ t < e.expireAt
        current == RedisIncr(live, e.count)
        expireAt == t + window * 1000
        ttl == (expireAt - t + 500) \div 1000
    IN  [entry |-> [count |-> current, expireAt |-> expireAt],
         current |-> current,
         reply |-> RpmReply(current, limit, ttl)]

RpmScript(e, t, limit, window) ==
    LET live == e.count > 0 /\ t < e.expireAt
        current == RedisIncr(live, e.count)
        expireAt == IF current = 1 THEN t + window * 1000 ELSE e.expireAt
        ttl == (expireAt - t + 500) \div 1000
    IN  [entry |-> [count |-> current, expireAt |-> expireAt],
         current |-> current,
         reply |-> RpmReply(current, limit, ttl)]

CeilDiv(a, b) == (a + b - 1) \div b

\* the test "allow_at <= now" of GCRA_SCRIPT, on values scaled by TatDen
GcraAdmits(allow_at, nowS) == allow_at <= nowS

\* GCRA_SCRIPT(KEYS[1]; rate, capacity, now, cost) at store time t on entry e.
\* rate = 0 makes emission_interval inf or nan: the comparison is false and
\* the second reply element is not an integer (undef).
\* The mutant stores new_tat on a rejection as well.
GcraScriptChargesDenied(e, t, rate, capacity, at, cost) ==
    LET live == e.tat # NoTat /\ t < e.expireAt
        nowS == at * TatDen
        tat == IF live THEN e.tat ELSE nowS
        base == IF tat > nowS THEN tat ELSE nowS
        new_tat == base + cost * capacity * (TatDen \div rate)
        allow_at == new_tat - capacity * TatDen
        stored == [tat |-> new_tat, expireAt |-> t + capacity * 2 * 1000]
    IN  IF rate = 0
        THEN [entry |-> e, admitted |-> FALSE, undef |-> TRUE, reply |-> <<0, 0>>]
        ELSE IF GcraAdmits(allow_at, nowS)
        THEN [entry |-> stored, admitted |-> TRUE, undef |-> FALSE, reply |-> <<1, 0>>]
        ELSE [entry |-> stored, admitted |-> FALSE, undef |-> FALSE,
              reply |-> <<0, CeilDiv(allow_at - nowS, TatDen)>>]

GcraScript(e, t, rate, capacity, at, cost) ==
    LET live == e.tat # NoTat /\ t < e.expireAt
        nowS == at * TatDen
        tat == IF live THEN e.tat ELSE nowS
        base == IF tat > nowS THEN tat ELSE nowS
        new_tat == base + cost * capacity * (TatDen \div rate)
        allow_at == new_tat - capacity * TatDen
    IN  IF rate = 0
        THEN [entry |-> e, admitted |-> FALSE, undef |-> TRUE, reply |-> <<0, 0>>]
        ELSE IF GcraAdmits(allow_at, nowS)
        THEN [entry |-> [tat |-> new_tat, expireAt |-> t + capacity * 2 * 1000],
              admitted |-> TRUE, undef |-> FALSE, reply |-> <<1, 0>>]
        ELSE [entry |-> e, admitted |-> FALSE, undef |-> FALSE,
              reply |-> <<0, CeilDiv(allow_at - nowS, TatDen)>>]

\* =====================================================================
\* Results and caller records
\* =====================================================================
\* Result<.., ..> values: kind is "ok" or "err"; why names the error
NoResult == [kind |-> "none", allowed |-> FALSE, remaining |-> 0, why |-> ""]
OkBool(b) == [kind |-> "ok", allowed |-> b, remaining |-> 0, why |-> ""]
OkPair(b, n) == [kind |-> "ok", allowed |-> b, remaining |-> n, why |-> ""]
OkUnit == [kind |-> "ok", allowed |-> TRUE, remaining |-> 0, why |-> ""]
Err == [kind |-> "err", allowed |-> FALSE, remaining |-> 0, why |-> "store"]
ChatErr(why) == [kind |-> "err", allowed |-> FALSE, remaining |-> 0, why |-> why]

NoReq == [model |-> <<>>, hasMessages |-> FALSE]
NoResp == [input_tokens |-> 0, output_tokens |-> 0]

\* a caller: the operation, its arguments, its locals, its last result.
\* rpmReply, tpmReply are the script replies this call received; trace is
\* the history of the stages the call has run.
NewOp(op, k, amt, limit) ==
    [pc |-> "idle", op |-> op, key |-> k, amt |-> amt, limit |-> limit, at |-> 0,
     rpmReply |-> <<>>, tpmReply |-> <<>>, result |-> NoResult,
     req |-> NoReq, target |-> Unresolved, resp |-> NoResp, trace |-> <<>>]

IdleProc == NewOp("none", "k1", 0, 0)

EmptyRpm == [count |-> 0, expireAt |-> 0]
EmptyTpm == [tat |-> NoTat, expireAt |-> 0]

\* the keys whose TTL has run out are gone
ExpireRpm(e, t) == IF e.count > 0 /\ t >= e.expireAt THEN EmptyRpm ELSE e
ExpireTpm(e, t) == IF e.tat # NoTat /\ t >= e.expireAt THEN EmptyTpm ELSE e

\* The fixed window of a key, as a caller sees it: it opens with the first
\* evaluation and lasts RpmWindow seconds; the next evaluation after that
\* opens the next one.  n counts its evaluations, seen holds the counter
\* values observed in it, dup tells whether one was observed twice, and
\* admitted counts the admissions per limit.
AllRpmLimits == {1, DefaultRpm}
NoWindow ==
    [open |-> FALSE, start |-> 0, n |-> 0, seen |-> {}, dup |-> FALSE,
     admitted |-> [l \in AllRpmLimits |-> 0]]

Observe(w, t, limit, current, allowed) ==
    LET base == IF w.open /\ t < w.start + RpmWindow * 1000
                THEN w
                ELSE [NoWindow EXCEPT !.open = TRUE, !.start = t]
    IN  [base EXCEPT !.n = @ + 1,
                     !.seen = @ \cup {current},
                     !.dup = @ \/ current \in base.seen,
                     !.admitted[limit] = @ + (IF allowed THEN 1 ELSE 0)]

\* a client that is not part of the behaviour
EmptyConfig ==
    [api_keys |-> {}, model_aliases |-> <<>>, default_provider |-> None,
     quotas |-> <<>>]
NoResolve == [model |-> <<>>, config |-> EmptyConfig, result |-> Unresolved]

InitClient(cfg) ==
    /\ config = cfg
    /\ router = NewRouter(cfg)
    /\ stream = <<>>
    /\ spawned = EmptyBag
    /\ lastResolve = NoResolve

\* the pub/sub channels; each has one subscriber task
CONFIG_CHANNEL == "hyperinfer:config_updates"
POLICY_CHANNEL == "hyperinfer:policy_updates"
Channels == {CONFIG_CHANNEL, POLICY_CHANNEL}

\* a ConfigManager caller that has made no call
IdleMgr ==
    [pc |-> "idle", op |-> "none", call |-> 0, cfg |-> EmptyConfig,
     ver |-> 0, setOk |-> FALSE, result |-> "none", fetched |-> EmptyConfig,
     sawVer |-> 0, sawSnapshot |-> EmptyConfig]

\* a subscriber task just spawned: `let mut backoff = 1`, about to connect
\* (taken, skipped and last are history: the messages taken from the
\* stream, those skipped, and what the task did with the last one)
NewSub ==
    [pc |-> "connect", backoff |-> 1, inbox |-> <<>>, taken |-> 0,
     skipped |-> 0, last |-> "none"]

\* the consumer task just spawned: `let mut backoff = 1`, at the loop top
\* (outcome is history: how process_entry went for the last entry)
NewConsumer ==
    [pc |-> "top", backoff |-> 1, mode |-> "none", batch |-> <<>>,
     await |-> "handler", outcome |-> "none"]

\* Result<Option<T>, DbError> and Result<T, DbError>: error is the DbError
\* variant, cause what the database reported inside DbError::Sqlx
DbOk(row) == [ok |-> TRUE, some |-> TRUE, row |-> row, error |-> "none", cause |-> "none"]
DbNone == [ok |-> TRUE, some |-> FALSE, row |-> <<>>, error |-> "none", cause |-> "none"]
DbErr(error, cause) ==
    [ok |-> FALSE, some |-> FALSE, row |-> <<>>, error |-> error, cause |-> cause]

\* no request has been served
NoRequest == [n |-> 0, method |-> "none", kind |-> "none", res |-> DbNone, status |-> 0]

\* the store has no hyperinfer:config key, nothing was published, both
\* subscriber tasks have just been spawned, no cancellation
InitTasks ==
    /\ cfgKey = [present |-> FALSE, json |-> <<>>]
    /\ cfgHist = [ver |-> 0, snapshot |-> EmptyConfig]
    /\ sent = <<>>
    /\ mgr = [p \in Procs |-> IdleMgr]
    /\ sub = [c \in Channels |-> NewSub]
    /\ policyCalls = <<>>
    /\ cancelled = FALSE
    /\ consumer = [c \in Consumers |-> NewConsumer]
    /\ group = [created |-> FALSE, last |-> 0, pending |-> {}, idle |-> {},
                owner |-> <<>>, handled |-> <<>>]
    /\ db = [rows |-> {}, next |-> 1]
    /\ admin = NoRequest

InitStore ==
    /\ InitTasks
    /\ now = 0
    /\ ticks = 0
    /\ rpm = [k \in Keys |-> EmptyRpm]
    /\ tpm = [k \in Keys |-> EmptyTpm]
    /\ usage = [k \in Keys |-> [tokens |-> 0, requests |-> 0]]
    /\ proc = [p \in Procs |-> IdleProc]
    /\ nOps = 0
    /\ rpmWin = [k \in Keys |-> NoWindow]
    /\ tpmLog = [k \in Keys |-> <<>>]
    /\ usageLog = [k \in Keys |-> <<>>]

\* time passes; expired keys disappear
Tick(dt, max) ==
    /\ ticks < max
    /\ ticks' = ticks + 1
    /\ now' = now + dt
    /\ rpm' = [k \in Keys |-> ExpireRpm(rpm[k], now + dt)]
    /\ tpm' = [k \in Keys |-> ExpireTpm(tpm[k], now + dt)]
    /\ UNCHANGED <<taskVars, connected, usage, proc, nOps, histVars, clientVars>>



\* =====================================================================
\* RateLimiter (hyperinfer-core/src/rate_limiting.rs)
\* =====================================================================
Returns(rec, res) == [rec EXCEPT !.pc = "idle", !.result = res]

\* chat(), once its is_allowed call has returned res.  The mutant fails
\* open: it goes on when the limiter returned an error.
ChatAfterIsAllowedFailOpen(rec, res) ==
    IF res.kind = "ok" /\ ~res.allowed
    THEN Returns(rec, ChatErr("rate_limit_exceeded"))
    ELSE [rec EXCEPT !.pc = "c_resolve", !.trace = Append(@, "admitted")]

ChatAfterIsAllowed(rec, res) ==
    IF res.kind = "err"
    THEN Returns(rec, ChatErr("rate_limit_store"))
    ELSE IF ~res.allowed
    THEN Returns(rec, ChatErr("rate_limit_exceeded"))
    ELSE [rec EXCEPT !.pc = "c_resolve", !.trace = Append(@, "admitted")]

\* is_allowed returns res, to its caller
IsAllowedReturns(rec, res) ==
    IF rec.op = "chat" THEN ChatAfterIsAllowed(rec, res) ELSE Returns(rec, res)

\* history: the store failed under a script evaluation of this call
StoreFailed(rec) == [rec EXCEPT !.trace = Append(@, "store_failed")]

\* is_allowed after the RPM evaluation: the mutant goes on to the TPM check
\* although the RPM check rejected
IsAllowedAfterRpmNoReturn(rec, o, reply) ==
    IF o # "ok"
    THEN IsAllowedReturns(StoreFailed(rec), Err)
    ELSE [rec EXCEPT !.rpmReply = reply, !.pc = "ia_tpm", !.at = now]

IsAllowedAfterRpm(rec, o, reply) ==
    IF o # "ok"
    THEN IsAllowedReturns(StoreFailed(rec), Err)
    ELSE IF reply[1] = 0
    THEN IsAllowedReturns([rec EXCEPT !.rpmReply = reply], OkBool(FALSE))
    ELSE [rec EXCEPT !.rpmReply = reply, !.pc = "ia_tpm", !.at = now]

\* one more operation of the behaviour starts
Started(max) == nOps < max /\ nOps' = nOps + 1

\* EVAL RPM_SCRIPT on the key of rec, with store outcome o
RpmOut(k, limit) == RpmScript(rpm[k], now, limit, RpmWindow)

RpmStep(p, rec, limit, o, after) ==
    LET r == RpmOut(rec.key, limit)
        ran == o # "fail_before"
    IN  /\ rpm' = IF ran THEN [rpm EXCEPT ![rec.key] = r.entry] ELSE rpm
        /\ rpmWin' = IF ran
                     THEN [rpmWin EXCEPT ![rec.key] =
                             Observe(@, now, limit, r.current, r.reply[1] = 1)]
                     ELSE rpmWin
        /\ proc' = [proc EXCEPT ![p] = after]
        /\ UNCHANGED <<taskVars, now, ticks, connected, tpm, usage, tpmLog, usageLog, clientVars>>

\* EVAL GCRA_SCRIPT on the key of rec, with store outcome o
GcraOut(rec, limit) ==
    GcraScript(tpm[rec.key], now, limit \div 60, limit, rec.at, rec.amt)

GcraApply(p, rec, rate, limit, g, o, after) ==
    LET ran == o # "fail_before"
        fresh == ExpireTpm(tpm[rec.key], now) = EmptyTpm
        entry == [at |-> rec.at, rate |-> rate, limit |-> limit, cost |-> rec.amt,
                  allowed |-> g.admitted, undef |-> g.undef, retry |-> g.reply[2]]
    IN  /\ tpm' = IF ran THEN [tpm EXCEPT ![rec.key] = g.entry] ELSE tpm
        /\ tpmLog' = IF ran
                     THEN [tpmLog EXCEPT ![rec.key] =
                             IF fresh THEN <<entry>> ELSE Append(@, entry)]
                     ELSE tpmLog
        /\ proc' = [proc EXCEPT ![p] = after]
        /\ UNCHANGED <<taskVars, now, ticks, connected, rpm, usage, rpmWin, usageLog, clientVars>>

\* the callers hand the script rate = limit / 60 and capacity = limit
GcraStep(p, rec, limit, o, after) ==
    GcraApply(p, rec, limit \div 60, limit, GcraOut(rec, limit), o, after)

\* EVAL GCRA_SCRIPT 1 key rate capacity now cost, as the script is written:
\* for any rate and capacity
EvalGcraOp(k, capacity, cost) ==
    [NewOp("eval_gcra", k, cost, capacity) EXCEPT !.at = now]

EvalGcra(p, k, rate, capacity, cost, max) ==
    /\ proc[p].pc = "idle"
    /\ connected
    /\ Started(max)
    /\ GcraApply(p, EvalGcraOp(k, capacity, cost), rate, capacity,
                 GcraScript(tpm[k], now, rate, capacity, now, cost), "ok",
                 Returns([EvalGcraOp(k, capacity, cost) EXCEPT
                            !.tpmReply = GcraScript(tpm[k], now, rate, capacity,
                                                    now, cost).reply],
                         OkBool(GcraScript(tpm[k], now, rate, capacity,
                                           now, cost).admitted)))

\* a call on a limiter built without a store URL: no await, no state
Permissive(p, rec, res) ==
    /\ proc' = [proc EXCEPT ![p] = Returns(rec, res)]
    /\ UNCHANGED <<taskVars, now, ticks, connected, storeVars, histVars, clientVars>>

\* is_allowed(key, amount) up to the reply of the RPM script
IsAllowed(p, k, amt, o, max) ==
    /\ proc[p].pc = "idle"
    /\ Started(max)
    /\ IF connected
       THEN RpmStep(p, NewOp("is_allowed", k, amt, 0), DefaultRpm, o,
                    IsAllowedAfterRpm(NewOp("is_allowed", k, amt, 0), o,
                                      RpmOut(k, DefaultRpm).reply))
       ELSE Permissive(p, NewOp("is_allowed", k, amt, 0), OkBool(TRUE))

\* the mutant answers true whatever the GCRA script replied
IsAllowedAfterTpmAlwaysTrue(rec, o, g) ==
    IF o # "ok"
    THEN IsAllowedReturns(StoreFailed(rec), Err)
    ELSE IsAllowedReturns([rec EXCEPT !.tpmReply = g.reply], OkBool(TRUE))

IsAllowedAfterTpm(rec, o, g) ==
    IF o # "ok"
    THEN IsAllowedReturns(StoreFailed(rec), Err)
    ELSE IsAllowedReturns([rec EXCEPT !.tpmReply = g.reply], OkBool(g.reply[1] = 1))

\* is_allowed: the GCRA evaluation, with the clock value read before it
IsAllowedTpm(p, o) ==
    /\ proc[p].pc = "ia_tpm"
    /\ UNCHANGED nOps
    /\ GcraStep(p, proc[p], DefaultTpm, o,
                IsAllowedAfterTpm(proc[p], o, GcraOut(proc[p], DefaultTpm)))

CheckRpmAfter(rec, o, reply) ==
    IF o # "ok"
    THEN Returns(rec, Err)
    ELSE Returns([rec EXCEPT !.rpmReply = reply], OkPair(reply[1] = 1, reply[2]))

\* without a store check_rpm answers (true, limit): the mutant answers (true, 0)
CheckRpmPermissiveZero(limit) == OkPair(TRUE, 0)

CheckRpmPermissive(limit) == OkPair(TRUE, limit)

\* check_rpm(key, limit)
CheckRpm(p, k, limit, o, max) ==
    /\ proc[p].pc = "idle"
    /\ Started(max)
    /\ IF connected
       THEN RpmStep(p, NewOp("check_rpm", k, 0, limit), limit, o,
                    CheckRpmAfter(NewOp("check_rpm", k, 0, limit), o,
                                  RpmOut(k, limit).reply))
       ELSE Permissive(p, NewOp("check_rpm", k, 0, limit), CheckRpmPermissive(limit))

\* check_tpm(key, limit, tokens) up to the clock read
CheckTpm(p, k, limit, tokens, max) ==
    /\ proc[p].pc = "idle"
    /\ Started(max)
    /\ IF connected
       THEN /\ proc' = [proc EXCEPT ![p] =
                           [NewOp("check_tpm", k, tokens, limit)
                              EXCEPT !.pc = "ct_eval", !.at = now]]
            /\ UNCHANGED <<taskVars, now, ticks, connected, storeVars, histVars, clientVars>>
       ELSE Permissive(p, NewOp("check_tpm", k, tokens, limit), OkBool(TRUE))

\* the reply {0, ceil(inf or nan)} does not decode as Vec<u64> on the builds
\* where the conversion gives a negative integer (u = "err"), and decodes on
\* the others (u = "deny")
CheckTpmAfter(rec, o, g, u) ==
    IF o # "ok" \/ (g.undef /\ u = "err")
    THEN Returns(rec, Err)
    ELSE Returns([rec EXCEPT !.tpmReply = g.reply], OkBool(g.reply[1] = 1))

\* check_tpm: the GCRA evaluation
CheckTpmEval(p, o, u) ==
    /\ proc[p].pc = "ct_eval"
    /\ UNCHANGED nOps
    /\ GcraStep(p, proc[p], proc[p].limit, o,
                CheckTpmAfter(proc[p], o, GcraOut(proc[p], proc[p].limit), u))

\* MULTI; INCRBY tokens; INCR requests; EXEC.  The mutant loses the INCR.
UsageTxnPartial(u, tokens_used) ==
    [tokens |-> u.tokens + tokens_used, requests |-> u.requests]

UsageTxn(u, tokens_used) ==
    [tokens |-> u.tokens + tokens_used, requests |-> u.requests + 1]

\* the store side of record_usage, with store outcome o
UsageStep(k, tokens_used, o) ==
    LET ran == o # "fail_before" IN
    /\ usage' = IF ran THEN [usage EXCEPT ![k] = UsageTxn(@, tokens_used)] ELSE usage
    /\ usageLog' = IF ran THEN [usageLog EXCEPT ![k] = Append(@, tokens_used)]
                   ELSE usageLog

\* record_usage(key, tokens_used)
RecordUsage(p, k, tokens_used, o, max) ==
    /\ proc[p].pc = "idle"
    /\ Started(max)
    /\ IF connected
       THEN /\ UsageStep(k, tokens_used, o)
            /\ proc' = [proc EXCEPT ![p] =
                          Returns(NewOp("record_usage", k, tokens_used, 0),
                                  IF o = "ok" THEN OkUnit ELSE Err)]
            /\ UNCHANGED <<taskVars, now, ticks, connected, rpm, tpm, rpmWin, tpmLog, clientVars>>
       ELSE Permissive(p, NewOp("record_usage", k, tokens_used, 0), OkUnit)



\* =====================================================================
\* Router::resolve as an operation of the client's router
\* =====================================================================
\* cfg is the _config argument, which resolve never reads
Resolve(model, cfg, max) ==
    /\ Started(max)
    /\ lastResolve' = [model |-> model, config |-> cfg,
                       result |-> resolve(router, model)]
    /\ UNCHANGED <<taskVars, now, ticks, connected, storeVars, histVars, proc,
                   config, router, telemetryUp, stream, spawned>>

\* =====================================================================
\* HyperInferClient::chat (hyperinfer-client/src/lib.rs)
\* =====================================================================
\* ChatRequest::validate; the mutant accepts every request
validateAnything(req) == TRUE

validate(req) == req.model # <<>> /\ req.hasMessages

\* Provider::to_string, the key of Config.api_keys
ProviderName(provider) ==
    CASE provider = OpenAI -> "openai"
      [] provider = Anthropic -> "anthropic"
      [] OTHER -> "other"

ChatOp(k, req) ==
    [NewOp("chat", k, 1, 0) EXCEPT !.req = req, !.at = now,
                                   !.trace = <<"validated">>]

\* chat(key, request): validate, take the start time, and is_allowed(key, 1)
\* up to the reply of the RPM script
Chat(p, k, req, o, max) ==
    /\ proc[p].pc = "idle"
    /\ connected
    /\ Started(max)
    /\ IF validate(req)
       THEN RpmStep(p, ChatOp(k, req), DefaultRpm, o,
                    IsAllowedAfterRpm(ChatOp(k, req), o, RpmOut(k, DefaultRpm).reply))
       ELSE /\ proc' = [proc EXCEPT ![p] =
                          Returns([NewOp("chat", k, 1, 0) EXCEPT !.req = req],
                                  ChatErr("invalid"))]
            /\ UNCHANGED <<taskVars, now, ticks, connected, storeVars, histVars, clientVars>>

\* the mutant calls the provider without the credential
ChatAfterResolveNoCredential(rec, cfg, resolved) ==
    IF ~resolved.some
    THEN Returns(rec, ChatErr("unknown_model"))
    ELSE IF resolved.provider \notin {OpenAI, Anthropic}
    THEN Returns([rec EXCEPT !.trace = Append(@, "resolved"), !.target = resolved],
                 ChatErr("unsupported"))
    ELSE [rec EXCEPT !.pc = "c_http", !.target = resolved,
                     !.trace = Append(@, "resolved")]

\* under the config read lock: resolve the model and look the credential up;
\* a provider other than OpenAI and Anthropic is refused before any call
ChatAfterResolve(rec, cfg, resolved) ==
    IF ~resolved.some
    THEN Returns(rec, ChatErr("unknown_model"))
    ELSE IF ProviderName(resolved.provider) \notin cfg.api_keys
    THEN Returns([rec EXCEPT !.trace = Append(@, "resolved")], ChatErr("no_api_key"))
    ELSE IF resolved.provider \notin {OpenAI, Anthropic}
    THEN Returns([rec EXCEPT !.trace = Append(@, "resolved"), !.target = resolved],
                 ChatErr("unsupported"))
    ELSE [rec EXCEPT !.pc = "c_http", !.target = resolved,
                     !.trace = Append(@, "resolved")]

ChatResolve(p) ==
    /\ proc[p].pc = "c_resolve"
    /\ proc' = [proc EXCEPT ![p] =
                  ChatAfterResolve(@, config, resolve(router, proc[p].req.model))]
    /\ UNCHANGED <<taskVars, now, ticks, connected, storeVars, histVars, clientVars, nOps>>

\* Telemetry::record(key, model, response_time_ms): the fields of the entry
TelemetryRecord(k, model, response_time_ms, timestamp) ==
    [key |-> k, model |-> model, input_tokens |-> 0, output_tokens |-> 0,
     response_time_ms |-> response_time_ms, timestamp |-> timestamp]

\* the mutant spawns the XADD whether or not there is a connection
record_with_tokensAlways(manager, tasks, rec) == tasks (+) SetToBag({rec})

\* Telemetry::record_with_tokens: `if let Some(ref manager) = self.manager`
\* spawns the XADD of the record, and otherwise only logs
record_with_tokens(manager, tasks, rec) ==
    IF manager THEN tasks (+) SetToBag({rec}) ELSE tasks

\* the provider call returns: an error ends the request; a response is
\* followed by telemetry.record, which spawns the XADD when the producer
\* holds a connection, and then record_usage is issued
ChatHttp(p, ok, usageIn, usageOut) ==
    /\ proc[p].pc = "c_http"
    /\ IF ok
       THEN /\ proc' = [proc EXCEPT ![p] =
                          [@ EXCEPT !.pc = "c_usage",
                                    !.resp = [input_tokens |-> usageIn,
                                              output_tokens |-> usageOut],
                                    !.trace = @ \o <<"dispatched", "telemetry">>]]
            /\ spawned' = record_with_tokens(telemetryUp, spawned,
                               TelemetryRecord(proc[p].key, proc[p].target.model,
                                               now - proc[p].at, now))
       ELSE /\ proc' = [proc EXCEPT ![p] =
                          Returns([@ EXCEPT !.trace = Append(@, "dispatched")],
                                  ChatErr("provider"))]
            /\ UNCHANGED spawned
    /\ UNCHANGED <<taskVars, now, ticks, connected, storeVars, histVars, nOps,
                   config, router, telemetryUp, stream, lastResolve>>

\* chat after record_usage returned with store outcome o: the mutant hands
\* the error of record_usage to the caller
ChatAfterUsagePropagate(rec, o) ==
    IF o = "ok"
    THEN Returns([rec EXCEPT !.trace = Append(@, "usage")], OkUnit)
    ELSE Returns([rec EXCEPT !.trace = Append(@, "usage")], Err)

\* `let _ = self.rate_limiter.record_usage(..).await; Ok(response)`
ChatAfterUsage(rec, o) ==
    Returns([rec EXCEPT !.trace = Append(@, "usage")], OkUnit)

\* record_usage(key, input + output tokens); its error is dropped and the
\* response is returned
ChatUsage(p, o) ==
    /\ proc[p].pc = "c_usage"
    /\ UsageStep(proc[p].key,
                 proc[p].resp.input_tokens + proc[p].resp.output_tokens, o)
    /\ proc' = [proc EXCEPT ![p] = ChatAfterUsage(@, o)]
    /\ UNCHANGED <<taskVars, now, ticks, connected, rpm, tpm, rpmWin, tpmLog, clientVars, nOps>>

\* the characters of an API key
KeyText(k) == IF k = "k1" THEN <<"k", "1">> ELSE <<"k", "2">>

Digits == <<"0", "1", "2", "3", "4", "5", "6", "7", "8", "9">>

IsDigit(c) == \E d \in 1..10 : Digits[d] = c

DigitVal(c) == (CHOOSE d \in 1..10 : Digits[d] = c) - 1

\* the to_string() of an unsigned number
RECURSIVE to_string(_)
to_string(n) ==
    IF n < 10 THEN <<Digits[n + 1]>>
    ELSE to_string(n \div 10) \o <<Digits[(n % 10) + 1]>>

\* the fields of the XADD: every member of the record as a string
XaddFields(rec) ==
    << <<"key", KeyText(rec.key)>>,
       <<"model", rec.model>>,
       <<"input_tokens", to_string(rec.input_tokens)>>,
       <<"output_tokens", to_string(rec.output_tokens)>>,
       <<"response_time_ms", to_string(rec.response_time_ms)>>,
       <<"timestamp", to_string(rec.timestamp)>> >>

\* a spawned XADD runs: the entry is appended, or the error is logged
TelemetrySend(rec, ok) ==
    /\ BagIn(rec, spawned)
    /\ spawned' = spawned (-) SetToBag({rec})
    /\ stream' = IF ok THEN Append(stream, XaddFields(rec)) ELSE stream
    /\ UNCHANGED <<taskVars, now, ticks, connected, storeVars, histVars, proc, nOps,
                   config, router, telemetryUp, lastResolve>>

\* =====================================================================
\* ConfigManager (hyperinfer-core/src/redis.rs)
\* =====================================================================
\* the mutant serializes api_keys like every other member
ConfigToJsonWithKeys(cfg) ==
    [api_keys |-> cfg.api_keys, quotas |-> cfg.quotas,
     model_aliases |-> cfg.model_aliases,
     default_provider |-> IF cfg.default_provider = None THEN "null"
                          ELSE ProviderName(cfg.default_provider)]

\* serde_json of a Config: a JSON object is a record of its members.
\* api_keys is #[serde(skip_serializing)], so the object has no such member;
\* a Provider is written in lowercase and None as null.
ConfigToJson(cfg) ==
    [quotas |-> cfg.quotas, model_aliases |-> cfg.model_aliases,
     default_provider |-> IF cfg.default_provider = None THEN "null"
                          ELSE ProviderName(cfg.default_provider)]

\* the mutant has no #[serde(other)] variant
ProviderFromJsonKnown(str) ==
    CASE str = "openai" -> OpenAI
      [] str = "anthropic" -> Anthropic
      [] OTHER -> None

\* #[serde(rename_all = "lowercase")] with #[serde(other)] on Other
ProviderFromJson(str) ==
    CASE str = "openai" -> OpenAI
      [] str = "anthropic" -> Anthropic
      [] str = "null" -> None
      [] OTHER -> Other

\* serde_json into a Config: quotas and model_aliases are required,
\* api_keys and default_provider are #[serde(default)]
ConfigFromJson(j) ==
    IF {"quotas", "model_aliases"} \subseteq DOMAIN j
    THEN [ok |-> TRUE,
          config |-> [api_keys |-> IF "api_keys" \in DOMAIN j
                                   THEN j.api_keys ELSE {},
                      model_aliases |-> j.model_aliases,
                      default_provider |->
                          IF "default_provider" \in DOMAIN j
                          THEN ProviderFromJson(j.default_provider) ELSE None,
                      quotas |-> j.quotas]]
    ELSE [ok |-> FALSE, config |-> EmptyConfig]

\* msg.get_payload::<String>() and serde_json::from_str::<ConfigUpdate>
ConfigUpdateFromMsg(msg) ==
    IF msg.utf8 /\ "config" \in DOMAIN msg.json
    THEN ConfigFromJson(msg.json.config)
    ELSE [ok |-> FALSE, config |-> EmptyConfig]

\* serde_json::from_str::<PolicyUpdate>: key and action are required and
\* the action is "revoke" or "update"; reason is an Option
NoPolicy == [key |-> "", action |-> "", reason |-> "null"]
PolicyUpdateFromMsg(msg) ==
    IF /\ msg.utf8
       /\ {"key", "action"} \subseteq DOMAIN msg.json
       /\ msg.json.action \in {"revoke", "update"}
    THEN [ok |-> TRUE,
          update |-> [key |-> msg.json.key, action |-> msg.json.action,
                      reason |-> IF "reason" \in DOMAIN msg.json
                                 THEN msg.json.reason ELSE "null"]]
    ELSE [ok |-> FALSE, update |-> NoPolicy]

\* a message on a channel; call is the ConfigManager call that sent it
\* (0 for another client of the store) and ver the SET that call made
Msg(json, call, ver) == [utf8 |-> TRUE, json |-> json, call |-> call, ver |-> ver]

\* PUBLISH: the message reaches the subscribers listening on the channel
Deliver(ch, msg) ==
    [c \in Channels |->
        IF c = ch /\ sub[c].pc = "listening"
        THEN [sub[c] EXCEPT !.inbox = Append(@, msg)]
        ELSE sub[c]]

\* the mutant goes on to PUBLISH whatever the SET returned
AfterSetIgnoreError(o) == "publish"

\* `.await?` on the SET: PUBLISH follows only when the SET returned Ok
AfterSet(o) == IF o = "ok" THEN "publish" ELSE "idle"

\* publish_config_update, up to the reply of SET hyperinfer:config
PublishConfigUpdate(p, cfg, o, max) ==
    /\ mgr[p].pc = "idle"
    /\ Started(max)
    /\ LET ran == o # "fail_before"
           ver == IF ran THEN cfgHist.ver + 1 ELSE 0
       IN  /\ cfgKey' = IF ran THEN [present |-> TRUE, json |-> ConfigToJson(cfg)]
                        ELSE cfgKey
           /\ cfgHist' = IF ran THEN [ver |-> ver, snapshot |-> cfg] ELSE cfgHist
           /\ mgr' = [mgr EXCEPT ![p] =
                        [IdleMgr EXCEPT !.pc = AfterSet(o), !.op = "publish_config",
                                        !.call = nOps + 1, !.cfg = cfg,
                                        !.ver = ver, !.setOk = (o = "ok"),
                                        !.result = IF AfterSet(o) = "publish"
                                                   THEN "none" ELSE "err"]]
    /\ UNCHANGED <<limiterVars, clientVars, sent, sub, policyCalls, cancelled, consumerVars>>

\* publish_config_update: PUBLISH hyperinfer:config_updates {"config": ..}
PublishNotify(p, o) ==
    /\ mgr[p].pc = "publish"
    /\ LET msg == Msg([config |-> ConfigToJson(mgr[p].cfg)], mgr[p].call, mgr[p].ver)
           ran == o # "fail_before"
       IN  /\ sub' = IF ran THEN Deliver(CONFIG_CHANNEL, msg) ELSE sub
           /\ sent' = IF ran THEN Append(sent, msg) ELSE sent
    /\ mgr' = [mgr EXCEPT ![p].pc = "idle",
                          ![p].result = IF o = "ok" THEN "ok" ELSE "err"]
    /\ UNCHANGED <<limiterVars, clientVars, nOps, cfgKey, cfgHist, policyCalls,
                   cancelled, consumerVars>>

\* fetch_config: GET hyperinfer:config and parse it, or the empty default
FetchConfig(p, o, max) ==
    /\ mgr[p].pc = "idle"
    /\ Started(max)
    /\ LET parsed == IF cfgKey.present THEN ConfigFromJson(cfgKey.json)
                     ELSE [ok |-> TRUE, config |-> EmptyConfig]
       IN  mgr' = [mgr EXCEPT ![p] =
                     [IdleMgr EXCEPT !.op = "fetch", !.call = nOps + 1,
                                     !.result = IF o = "ok" /\ parsed.ok
                                                THEN "ok" ELSE "err",
                                     !.fetched = IF o = "ok" THEN parsed.config
                                                 ELSE EmptyConfig,
                                     !.sawVer = cfgHist.ver,
                                     !.sawSnapshot = cfgHist.snapshot]]
    /\ UNCHANGED <<limiterVars, clientVars, cfgKey, cfgHist, sent, sub,
                   policyCalls, cancelled, consumerVars>>

\* publish_policy_update: PUBLISH hyperinfer:policy_updates
PublishPolicyUpdate(p, update, o, max) ==
    /\ mgr[p].pc = "idle"
    /\ Started(max)
    /\ LET msg == Msg(update, nOps + 1, 0)
           ran == o # "fail_before"
       IN  /\ sub' = IF ran THEN Deliver(POLICY_CHANNEL, msg) ELSE sub
           /\ sent' = IF ran THEN Append(sent, msg) ELSE sent
    /\ mgr' = [mgr EXCEPT ![p] =
                 [IdleMgr EXCEPT !.op = "publish_policy", !.call = nOps + 1,
                                 !.result = IF o = "ok" THEN "ok" ELSE "err"]]
    /\ UNCHANGED <<limiterVars, clientVars, cfgKey, cfgHist, policyCalls,
                   cancelled, consumerVars>>

\* another client of the store publishes msg on the channel
ForeignPublish(ch, msg, max) ==
    /\ Started(max)
    /\ sub' = Deliver(ch, msg)
    /\ UNCHANGED <<limiterVars, clientVars, cfgKey, cfgHist, sent, mgr,
                   policyCalls, cancelled, consumerVars>>

\* the mutant doubles without a cap
DoubledUncapped(backoff, cap) == 2 * backoff

\* (backoff * 2).min(cap)
Doubled(backoff, cap) == IF 2 * backoff < cap THEN 2 * backoff ELSE cap

\* Client::open, get_async_pubsub and subscribe; o is "ok", "connect_err"
\* or "subscribe_err".  Either error leaves the inner block through `?`.
SubConnect(ch, o) ==
    /\ sub[ch].pc = "connect"
    /\ sub' = [sub EXCEPT ![ch].pc = IF o = "ok" THEN "listening" ELSE "backoff"]
    /\ UNCHANGED <<limiterVars, clientVars, nOps, cfgKey, cfgHist, sent, mgr,
                   policyCalls, cancelled, consumerVars>>

\* sleep(backoff) after an error, then backoff = (backoff * 2).min(60)
SubSleep(ch) ==
    /\ sub[ch].pc = "backoff"
    /\ sub' = [sub EXCEPT ![ch].pc = "connect",
                          ![ch].backoff = Doubled(@, SubBackoffCap)]
    /\ UNCHANGED <<limiterVars, clientVars, nOps, cfgKey, cfgHist, sent, mgr,
                   policyCalls, cancelled, consumerVars>>

\* the mutant assigns the new snapshot member by member and leaves the
\* default provider of the old one
ApplyConfigMsgKeepDefault(cfg, msg) ==
    IF ConfigUpdateFromMsg(msg).ok
    THEN [ConfigUpdateFromMsg(msg).config EXCEPT
             !.default_provider = cfg.default_provider]
    ELSE cfg

\* the mutant applies the members of a malformed update that it can read
ApplyConfigMsgPartial(cfg, msg) ==
    IF msg.utf8 /\ "config" \in DOMAIN msg.json
       /\ "model_aliases" \in DOMAIN msg.json.config
    THEN [cfg EXCEPT !.model_aliases = msg.json.config.model_aliases]
    ELSE cfg

\* the config subscriber's loop body: `*cfg = new_config` under the write
\* lock when the message parses, `continue` when it does not
ApplyConfigMsg(cfg, msg) ==
    IF ConfigUpdateFromMsg(msg).ok THEN ConfigUpdateFromMsg(msg).config ELSE cfg

\* stream.next() yields the next message of the subscription
SubNext(ch) ==
    /\ sub[ch].pc = "listening"
    /\ sub[ch].inbox # <<>>
    /\ LET msg == Head(sub[ch].inbox)
           parsed == IF ch = CONFIG_CHANNEL THEN ConfigUpdateFromMsg(msg).ok
                     ELSE PolicyUpdateFromMsg(msg).ok
       IN  /\ sub' = [sub EXCEPT ![ch].inbox = Tail(@),
                                 ![ch].taken = @ + 1,
                                 ![ch].skipped = IF parsed THEN @ ELSE @ + 1,
                                 ![ch].last = IF parsed THEN "applied"
                                              ELSE "skipped"]
           /\ config' = IF ch = CONFIG_CHANNEL THEN ApplyConfigMsg(config, msg)
                        ELSE config
           /\ policyCalls' = IF ch = POLICY_CHANNEL /\ parsed
                             THEN Append(policyCalls, PolicyUpdateFromMsg(msg).update)
                             ELSE policyCalls
    /\ UNCHANGED <<limiterVars, nOps, router, telemetryUp, stream, spawned,
                   lastResolve, cfgKey, cfgHist, sent, mgr, cancelled,
                   consumerVars>>

\* the connection is lost while subscribed: stream.next() yields None, the
\* inner block returns Ok(()) and the task leaves its loop through `break`
SubStreamEnd(ch) ==
    /\ sub[ch].pc = "listening"
    /\ sub' = [sub EXCEPT ![ch].pc = "done", ![ch].inbox = <<>>]
    /\ UNCHANGED <<limiterVars, clientVars, nOps, cfgKey, cfgHist, sent, mgr,
                   policyCalls, cancelled, consumerVars>>

\* the owner of the tasks fires the cancellation signal
Cancel ==
    /\ ~cancelled
    /\ cancelled' = TRUE
    /\ UNCHANGED <<limiterVars, clientVars, nOps, planeVars, consumerVars>>

\* =====================================================================
\* =====================================================================
\* TelemetryConsumer (hyperinfer-core/src/telemetry_consumer.rs)
\* =====================================================================
\* An entry is named by its position in the stream, which orders entries
\* as their ids do. Its fields are a list of (name, value) pairs of
\* strings. A number too large for the model's integers is kept as its
\* decimal numeral, a string of digits without leading zeros.
\* (group.handled is history: the first MaxHandled handler invocations,
\* each with the consumer, the entry, the record passed and the result)

\* the numeral of the number a string of digits denotes
RECURSIVE StripZeros(_)
StripZeros(s) == IF Len(s) > 1 /\ Head(s) = "0" THEN StripZeros(Tail(s)) ELSE s

\* numerals compare by length and then digit by digit
RECURSIVE NumeralLeq(_, _)
NumeralLeq(a, b) ==
    IF Len(a) # Len(b) THEN Len(a) < Len(b)
    ELSE IF a = <<>> THEN TRUE
    ELSE IF Head(a) # Head(b) THEN DigitVal(Head(a)) < DigitVal(Head(b))
    ELSE NumeralLeq(Tail(a), Tail(b))

\* u32::MAX and u64::MAX
U32_MAX == <<"4", "2", "9", "4", "9", "6", "7", "2", "9", "5">>
U64_MAX == <<"1", "8", "4", "4", "6", "7", "4", "4", "0", "7",
             "3", "7", "0", "9", "5", "5", "1", "6", "1", "5">>

\* the mutant reads a numeral of any size
ParseUnsignedAnySize(s, max) ==
    LET digits == IF s # <<>> /\ Head(s) = "+" THEN Tail(s) ELSE s
        ok == digits # <<>> /\ \A i \in 1..Len(digits) : IsDigit(digits[i])
    IN  [some |-> ok, value |-> IF ok THEN StripZeros(digits) ELSE <<>>]

\* str::parse::<u32>() and ::<u64>(): an optional "+", then one or more
\* digits and nothing else, denoting a number up to the type's MAX
ParseUnsigned(s, max) ==
    LET digits == IF s # <<>> /\ Head(s) = "+" THEN Tail(s) ELSE s
        ok == /\ digits # <<>>
              /\ \A i \in 1..Len(digits) : IsDigit(digits[i])
              /\ NumeralLeq(StripZeros(digits), max)
    IN  [some |-> ok, value |-> IF ok THEN StripZeros(digits) ELSE <<>>]

Whitespace == {" ", "\t"}

\* str::trim
RECURSIVE TrimStart(_)
TrimStart(s) == IF s # <<>> /\ Head(s) \in Whitespace THEN TrimStart(Tail(s)) ELSE s

RECURSIVE TrimEnd(_)
TrimEnd(s) ==
    IF s # <<>> /\ s[Len(s)] \in Whitespace THEN TrimEnd(SubSeq(s, 1, Len(s) - 1))
    ELSE s

Trim(s) == TrimEnd(TrimStart(s))

\* the HashMap parse_entry collects the fields into: a later pair with
\* the same name replaces an earlier one
MapGet(fields, name) ==
    LET at == {i \in 1..Len(fields) : fields[i][1] = name} IN
    IF at = {} THEN [some |-> FALSE, value |-> <<>>]
    ELSE [some |-> TRUE,
          value |-> fields[CHOOSE i \in at : \A j \in at : j <= i][2]]

NoRecord == [some |-> FALSE]

\* parse_entry(fields): the UsageRecord of the entry, or None
parse_entry(fields) ==
    LET key == MapGet(fields, "key")
        model == MapGet(fields, "model")
        input_tokens == MapGet(fields, "input_tokens")
        output_tokens == MapGet(fields, "output_tokens")
        response_time_ms == MapGet(fields, "response_time_ms")
        timestamp == MapGet(fields, "timestamp")
    IN  IF ~key.some \/ ~model.some THEN NoRecord
        ELSE IF Trim(key.value) = <<>> \/ Trim(model.value) = <<>> THEN NoRecord
        ELSE IF ~input_tokens.some \/ ~ParseUnsigned(input_tokens.value, U32_MAX).some
        THEN NoRecord
        ELSE IF ~output_tokens.some \/ ~ParseUnsigned(output_tokens.value, U32_MAX).some
        THEN NoRecord
        ELSE IF ~response_time_ms.some
                \/ ~ParseUnsigned(response_time_ms.value, U64_MAX).some
        THEN NoRecord
        ELSE IF ~timestamp.some \/ ~ParseUnsigned(timestamp.value, U64_MAX).some
        THEN NoRecord
        ELSE [some |-> TRUE,
              key |-> key.value,
              model |-> model.value,
              input_tokens |-> ParseUnsigned(input_tokens.value, U32_MAX).value,
              output_tokens |-> ParseUnsigned(output_tokens.value, U32_MAX).value,
              response_time_ms |-> ParseUnsigned(response_time_ms.value, U64_MAX).value,
              timestamp |-> ParseUnsigned(timestamp.value, U64_MAX).value]

\* the ids of a set of entries in increasing order
Ascending(S) ==
    CHOOSE q \in [1..Cardinality(S) -> S] :
        \A i, j \in 1..Cardinality(S) : i < j => q[i] < q[j]

\* the task has finished the entry at the head of its batch; after the
\* last entry recovery returns, and a batch read returns Ok (backoff = 1)
EntryDone(c) ==
    IF Len(c.batch) > 1
    THEN [c EXCEPT !.batch = Tail(@), !.await = "handler"]
    ELSE [c EXCEPT !.batch = <<>>, !.await = "handler", !.pc = "inner_top",
                   !.mode = "none",
                   !.backoff = IF c.mode = "read" THEN 1 ELSE @]

\* the task takes a batch of entries, or goes on when there are none
TakeBatch(c, ids, mode) ==
    IF ids = {}
    THEN [c EXCEPT !.pc = "inner_top", !.backoff = IF mode = "read" THEN 1 ELSE @]
    ELSE [c EXCEPT !.pc = "processing", !.mode = mode,
                   !.batch = Ascending(ids), !.await = "handler"]

ConsumerFrame == UNCHANGED <<limiterVars, nOps, clientVars, planeVars, cancelled>>

\* the loop tops: `if cancellation_token.is_cancelled() { return }`
ConsumerCheck(c) ==
    /\ consumer[c].pc \in {"top", "inner_top"}
    /\ consumer' = [consumer EXCEPT ![c].pc = IF cancelled THEN "done"
                                              ELSE IF @ = "top" THEN "connecting"
                                              ELSE "reading"]
    /\ UNCHANGED group
    /\ ConsumerFrame

\* get_multiplexed_async_connection().await
ConsumerConnect(c, ok) ==
    /\ consumer[c].pc = "connecting"
    /\ consumer' = [consumer EXCEPT ![c].pc = IF ok THEN "ensure" ELSE "backoff"]
    /\ UNCHANGED group
    /\ ConsumerFrame

\* the sleep branch of the select after a failed connect
ConsumerSleep(c) ==
    /\ consumer[c].pc = "backoff"
    /\ consumer' = [consumer EXCEPT
                       ![c].pc = "top",
                       ![c].backoff = Doubled(@, MAX_BACKOFF_SECS)]
    /\ UNCHANGED group
    /\ ConsumerFrame

\* ensure_consumer_group: XGROUP CREATE .. 0 MKSTREAM; BUSYGROUP is Ok and
\* any other error is only logged
ConsumerEnsure(c, o) ==
    /\ consumer[c].pc = "ensure"
    /\ consumer' = [consumer EXCEPT ![c].pc = "recover"]
    /\ group' = IF o # "fail_before" THEN [group EXCEPT !.created = TRUE] ELSE group
    /\ ConsumerFrame

\* XAUTOCLAIM and XREADGROUP make the consumer the owner of the entries
Owned(owner, ids, c) ==
    [i \in DOMAIN owner \cup ids |-> IF i \in ids THEN c ELSE owner[i]]

\* the mutant claims with a minimum idle time of 0
ClaimableAnyIdleTime(g) == g.pending

\* XAUTOCLAIM .. XAUTOCLAIM_IDLE_MS ..: the pending entries, whoever owns
\* them, that have been idle for XAUTOCLAIM_IDLE_MS
Claimable(g) == g.idle

\* recover_pending_messages: XAUTOCLAIM from 0 claims the pending entries
\* idle for XAUTOCLAIM_IDLE_MS; an error ends recovery.  The pending list
\* is shorter than COUNT 100, so one call scans all of it and the reply
\* carries the cursor that ends the loop.
ConsumerRecover(c, o) ==
    /\ consumer[c].pc = "recover"
    /\ LET claimed == IF group.created /\ o # "fail_before" THEN Claimable(group)
                      ELSE {}
           replied == group.created /\ o = "ok"
       IN  /\ group' = [group EXCEPT !.idle = @ \ claimed,
                                     !.owner = Owned(@, claimed, c)]
           /\ consumer' = [consumer EXCEPT ![c] =
                             IF replied THEN TakeBatch(@, claimed, "recover")
                             ELSE [@ EXCEPT !.pc = "inner_top"]]
    /\ ConsumerFrame

\* read_and_process_batch: XREADGROUP .. COUNT 10 BLOCK 5000 .. ">"; an
\* error doubles the backoff and leaves the inner loop
ConsumerRead(c, o) ==
    /\ consumer[c].pc = "reading"
    /\ LET new == IF group.created /\ o # "fail_before"
                  THEN {i \in DOMAIN stream :
                           group.last < i /\ i <= group.last + XREADGROUP_COUNT}
                  ELSE {}
           replied == group.created /\ o = "ok"
       IN  /\ group' = [group EXCEPT !.last = @ + Cardinality(new),
                                     !.pending = @ \cup new,
                                     !.owner = Owned(@, new, c)]
           /\ consumer' = [consumer EXCEPT ![c] =
                 IF replied THEN TakeBatch(@, new, "read")
                 ELSE [@ EXCEPT
                          !.pc = "top",
                          !.backoff = Doubled(@, MAX_BACKOFF_SECS)]]
    /\ ConsumerFrame

\* the mutant acknowledges an entry whatever the handler returned
AfterHandlerAckAlways(c, parsed, ok) ==
    [c EXCEPT !.await = "ack",
              !.outcome = IF ~parsed THEN "unparsed" ELSE IF ok THEN "ok" ELSE "err"]

\* process_entry after the handler returned, or after parse_entry
\* returned None
AfterHandler(c, parsed, ok) ==
    IF parsed /\ ~ok THEN [EntryDone(c) EXCEPT !.outcome = "err"]
    ELSE [c EXCEPT !.await = "ack",
                   !.outcome = IF parsed THEN "ok" ELSE "unparsed"]

\* process_entry up to the handler's result: an entry that parses goes to
\* the handler and is acknowledged when the handler returned Ok; an entry
\* that does not parse is acknowledged without the handler
ConsumerHandle(c, ok) ==
    /\ consumer[c].pc = "processing"
    /\ consumer[c].await = "handler"
    /\ LET id == Head(consumer[c].batch)
           parsed == parse_entry(stream[id])
       IN  /\ consumer' = [consumer EXCEPT ![c] = AfterHandler(@, parsed.some, ok)]
           /\ group' = IF parsed.some /\ Len(group.handled) < MaxHandled
                       THEN [group EXCEPT !.handled =
                               Append(@, [c |-> c, id |-> id, ok |-> ok,
                                          rec |-> parsed])]
                       ELSE group
    /\ ConsumerFrame

\* ack_message: XACK; its error is only logged
ConsumerAck(c, o) ==
    /\ consumer[c].pc = "processing"
    /\ consumer[c].await = "ack"
    /\ LET id == Head(consumer[c].batch) IN
       group' = IF o # "fail_before"
                THEN [group EXCEPT !.pending = @ \ {id}, !.idle = @ \ {id},
                                   !.owner = [i \in DOMAIN @ \ {id} |-> @[i]]]
                ELSE group
    /\ consumer' = [consumer EXCEPT ![c] = EntryDone(@)]
    /\ ConsumerFrame

\* the cancelled() branch of a select!: the backoff sleep, or the
\* read_and_process_batch future, is dropped where it stands
ConsumerCancelled(c) ==
    /\ cancelled
    /\ consumer[c].pc \in {"backoff", "reading"} \cup
          (IF consumer[c].mode = "read" THEN {"processing"} ELSE {})
    /\ consumer' = [consumer EXCEPT ![c].pc = "done"]
    /\ UNCHANGED group
    /\ ConsumerFrame

\* XAUTOCLAIM_IDLE_MS have passed since the last delivery of the pending
\* entries S: they count as idle
PendingIdle(S) ==
    /\ S # {}
    /\ S \subseteq group.pending \ group.idle
    /\ group' = [group EXCEPT !.idle = @ \cup S]
    /\ UNCHANGED consumer
    /\ ConsumerFrame

\* =====================================================================
\* The admin HTTP surface (hyperinfer-server/src/main.rs, db.rs)
\* =====================================================================
\* the five resources; each has a GET and a POST handler
Kinds == {"team", "user", "api_key", "model_alias", "quota"}

\* uuid::Uuid::parse_str, on identifiers written as strings of digits: a
\* string that is empty or has another character is not an identifier
ParseUuid(s) ==
    IF s # <<>> /\ \A i \in DOMAIN s : IsDigit(s[i])
    THEN [ok |-> TRUE, value |-> s]
    ELSE [ok |-> FALSE, value |-> <<>>]

\* the columns under the unique constraint of each table
UniqueKey(kind, refs, val) ==
    CASE kind = "team" -> <<val>>
      [] kind = "user" -> <<refs[1], val>>
      [] kind = "api_key" -> <<val>>
      [] kind = "model_alias" -> <<refs[1], val>>
      [] kind = "quota" -> <<refs[1]>>

\* the identifiers create_* parses before the INSERT: none for a team,
\* team_id for a user, an alias and a quota, user_id and team_id for a key
RefCount(kind) ==
    CASE kind = "team" -> 0
      [] kind = "api_key" -> 2
      [] OTHER -> 1

\* the row a SELECT .. WHERE id = $1 (team_id = $1 for quotas) finds
Selected(rows, kind, id) ==
    {r \in rows : r.kind = kind /\
                   (IF kind = "quota" THEN r.key = <<id>> ELSE r.id = id)}

\* SqlxDb::get_*(id): parse the identifier, then fetch_optional
SqlxGet(d, kind, text, o) ==
    LET u == ParseUuid(text) IN
    IF ~u.ok THEN DbErr("InvalidUuid", "none")
    ELSE IF o # "ok" THEN DbErr("Sqlx", "io")
    ELSE IF Selected(d.rows, kind, u.value) = {} THEN DbNone
    ELSE DbOk(CHOOSE r \in Selected(d.rows, kind, u.value) : TRUE)

\* SqlxDb::create_*(..): parse the identifiers in order, then INSERT ..
\* RETURNING with fetch_one; `?` wraps every sqlx::Error, the unique
\* violation reported by the database included, in DbError::Sqlx
SqlxCreate(d, kind, refs, val, o) ==
    IF \E i \in DOMAIN refs : ~ParseUuid(refs[i]).ok
    THEN DbErr("InvalidUuid", "none")
    ELSE IF o # "ok" THEN DbErr("Sqlx", "io")
    ELSE IF \E r \in d.rows : r.kind = kind /\ r.key = UniqueKey(kind, refs, val)
    THEN DbErr("Sqlx", "unique_violation")
    ELSE DbOk([kind |-> kind, id |-> to_string(d.next),
               key |-> UniqueKey(kind, refs, val)])

\* the match of the GET handlers on the result of the database call
GetStatus(res) ==
    IF res.ok THEN (IF res.some THEN 200 ELSE 404) ELSE 500

\* the match of the POST handlers on the result of the database call
CreateStatus(res) == IF res.ok THEN 200 ELSE 500

AdminFrame == UNCHANGED <<now, ticks, connected, storeVars, histVars, proc, nOps,
                          clientVars, planeVars, cancelled, consumerVars>>

\* GET /v1/<kind>s/:id: get_team, get_user, get_api_key, get_model_alias,
\* get_quota
AdminGet(kind, text, o, max) ==
    /\ admin.n < max
    /\ admin' = [n |-> admin.n + 1, method |-> "GET", kind |-> kind,
                 res |-> SqlxGet(db, kind, text, o),
                 status |-> GetStatus(SqlxGet(db, kind, text, o))]
    /\ UNCHANGED db
    /\ AdminFrame

\* POST /v1/<kind>s: create_team, create_user, create_api_key,
\* create_model_alias, create_quota
AdminCreate(kind, refs, val, o, max) ==
    LET res == SqlxCreate(db, kind, refs, val, o) IN
    /\ admin.n < max
    /\ Len(refs) = RefCount(kind)
    /\ admin' = [n |-> admin.n + 1, method |-> "POST", kind |-> kind,
                 res |-> res, status |-> CreateStatus(res)]
    /\ db' = IF res.ok
             THEN [rows |-> db.rows \cup {res.row}, next |-> db.next + 1]
             ELSE db
    /\ AdminFrame

\* =====================================================================
\* Specifications
\* =====================================================================
Amounts == {1, 1000}
RpmLimits == {1}
TpmLimits == {120}
TpmCosts == {2}
UsageAmounts == {1, 2}

\* Spec: concurrent callers of the limiter's four operations
SpecKeys == {"k1"}

\* the store after n check_rpm(k, DefaultRpm) calls at time 0
Prefilled(n) ==
    [count |-> n, expireAt |-> IF n = 0 THEN 0 ELSE RpmWindow * 1000]
PrefilledWin(n) ==
    IF n = 0 THEN NoWindow
    ELSE [NoWindow EXCEPT !.open = TRUE, !.n = n, !.seen = 1..n,
                          !.admitted[DefaultRpm] = n]

Init ==
    /\ InitTasks
    /\ now = 0
    /\ ticks = 0
    /\ connected \in BOOLEAN
    /\ InitClient(EmptyConfig)
    /\ telemetryUp = FALSE
    /\ \E n \in {0, DefaultRpm - 1} :
          /\ (~connected => n = 0)
          /\ rpm = [k \in Keys |-> Prefilled(n)]
          /\ rpmWin = [k \in Keys |-> PrefilledWin(n)]
    /\ tpm = [k \in Keys |-> EmptyTpm]
    /\ usage = [k \in Keys |-> [tokens |-> 0, requests |-> 0]]
    /\ proc = [p \in Procs |-> IdleProc]
    /\ nOps = 0
    /\ tpmLog = [k \in Keys |-> <<>>]
    /\ usageLog = [k \in Keys |-> <<>>]

Next ==
    \/ \E p \in Procs, k \in SpecKeys, amt \in Amounts, o \in StoreOutcomes :
          IsAllowed(p, k, amt, o, MaxOps)
    \/ \E p \in Procs, o \in StoreOutcomes : IsAllowedTpm(p, o)
    \/ \E p \in Procs, k \in SpecKeys, limit \in RpmLimits, o \in StoreOutcomes :
          CheckRpm(p, k, limit, o, MaxOps)
    \/ \E p \in Procs, k \in SpecKeys, limit \in TpmLimits, tokens \in TpmCosts :
          CheckTpm(p, k, limit, tokens, MaxOps)
    \/ \E p \in Procs, o \in StoreOutcomes : CheckTpmEval(p, o, "deny")
    \/ \E p \in Procs, k \in SpecKeys, tokens \in UsageAmounts, o \in StoreOutcomes :
          RecordUsage(p, k, tokens, o, MaxOps)
    \/ \E dt \in TickSteps : Tick(dt, MaxTicks)

Spec == Init /\ [][Next]_vars

\* SpecSeq: one caller, one key, is_allowed(key, 1) again and again
InitSeq ==
    /\ InitStore
    /\ connected = TRUE
    /\ InitClient(EmptyConfig)
    /\ telemetryUp = FALSE

NextSeq ==
    \/ IsAllowed("p1", "k1", 1, "ok", MaxSeqCalls)
    \/ IsAllowedTpm("p1", "ok")
    \/ \E dt \in TickSteps : Tick(dt, MaxSeqTicks)

SpecSeq == InitSeq /\ [][NextSeq]_vars

\* SpecGcra: one caller, one key, check_tpm(key, limit, tokens) in sequence
GcraLimits == {59, 120}
GcraCosts == {1, 2, 100}

NextGcra ==
    \/ \E limit \in GcraLimits, tokens \in GcraCosts :
          CheckTpm("p1", "k1", limit, tokens, MaxGcraCalls)
    \/ \E u \in {"err", "deny"} : CheckTpmEval("p1", "ok", u)
    \/ \E dt \in TickSteps : Tick(dt, MaxGcraTicks)

SpecGcra == InitSeq /\ [][NextGcra]_vars

\* SpecScript: the GCRA script evaluated on one key, for any rate and capacity
ScriptRates == {1, 2}
ScriptCapacities == {1, 2, 3}
ScriptCosts == {1, 2}

NextScript ==
    \/ \E rate \in ScriptRates, capacity \in ScriptCapacities, cost \in ScriptCosts :
          EvalGcra("p1", "k1", rate, capacity, cost, MaxScriptEvals)
    \/ \E dt \in TickSteps : Tick(dt, MaxScriptTicks)

SpecScript == InitSeq /\ [][NextScript]_vars



\* ---------------------------------------------------------------------
\* SpecRouter: a router built from a batch of aliases and a default
\* provider, and resolve calls on it
\* ---------------------------------------------------------------------
M_gpt4 == <<"g", "p", "t", "-", "4">>
M_gptx == <<"g", "p", "t", "4">>
M_o1 == <<"o", "1", "-", "m">>
M_o3 == <<"o", "3", "-", "m">>
M_claude3 == <<"c", "l", "a", "u", "d", "e", "-", "3">>
M_llama == <<"l", "l", "a", "m", "a">>
A_my == <<"m", "y">>
A_gptc == <<"g", "p", "t", "-", "c">>

T_anthropic_claude3 == StrAnthropic \o <<"/">> \o M_claude3
T_Anthropic_gpt4 == <<"A">> \o Tail(StrAnthropic) \o <<"/">> \o M_gpt4
T_openai_llama == StrOpenai \o <<"/">> \o M_llama
T_unknown_x == <<"u", "n", "k", "n", "o", "w", "n", "/", "x">>

ModelNames == {M_gpt4, M_gptx, M_o1, M_o3, M_claude3, M_llama, A_my, A_gptc}
AliasNames == {A_my, A_gptc}
AliasTargets ==
    {T_anthropic_claude3, T_Anthropic_gpt4, T_openai_llama, T_unknown_x,
     M_llama, M_claude3}

\* the alias batches: every map from a set of alias names to targets
AliasBatches ==
    UNION {[names -> AliasTargets] : names \in SUBSET AliasNames}

InitRouter ==
    /\ InitStore
    /\ connected = TRUE
    /\ telemetryUp = FALSE
    /\ \E batch \in AliasBatches, d \in Providers \cup {None} :
          InitClient([EmptyConfig EXCEPT !.model_aliases = batch,
                                         !.default_provider = d])

\* the configs a caller passes to resolve: the one the router was built from,
\* or one that differs from it in the aliases or in the default provider
PassedConfigs(cfg) ==
    {cfg, [cfg EXCEPT !.model_aliases = (A_my :> T_anthropic_claude3)],
     [cfg EXCEPT !.default_provider = Anthropic]}

NextRouter ==
    \E m \in ModelNames, cfg \in PassedConfigs(config) : Resolve(m, cfg, MaxResolves)

SpecRouter == InitRouter /\ [][NextRouter]_vars


\* ---------------------------------------------------------------------
\* SpecPlane: two ConfigManager callers, the two subscriber tasks and
\* other clients of the store publishing on the channels
\* ---------------------------------------------------------------------
\* the snapshot the subscriber's shared config starts with, and the
\* snapshots that are published
PlaneS1 == [EmptyConfig EXCEPT !.api_keys = {"openai"}]
PlaneS2 == [EmptyConfig EXCEPT !.model_aliases = (A_my :> T_anthropic_claude3)]
PlaneS3 == [EmptyConfig EXCEPT !.api_keys = {"anthropic"}, !.default_provider = Other]
PlaneConfigs == {PlaneS2, PlaneS3}

PolicyUpdates == {[key |-> "k1", action |-> "revoke", reason |-> "null"]}

\* payloads that are not a ConfigUpdate: bytes that are not UTF-8, and an
\* update whose config lacks the required quotas member
BadUtf8 == [utf8 |-> FALSE, json |-> <<>>, call |-> 0, ver |-> 0]
BadConfigUpdate == Msg([config |-> [model_aliases |-> (A_gptc :> T_openai_llama)]], 0, 0)
\* a payload that is not a PolicyUpdate: an action that is no PolicyAction
BadPolicyUpdate == Msg([key |-> "k1", action |-> "delete"], 0, 0)
MalformedMsgs(ch) ==
    IF ch = CONFIG_CHANNEL THEN {BadUtf8, BadConfigUpdate} ELSE {BadPolicyUpdate}

InitPlane ==
    /\ InitStore
    /\ connected = TRUE
    /\ telemetryUp = FALSE
    /\ InitClient(PlaneS1)

NextPlane ==
    \/ \E p \in Procs, cfg \in PlaneConfigs, o \in StoreOutcomes :
          PublishConfigUpdate(p, cfg, o, MaxPlaneOps)
    \/ \E p \in Procs, o \in StoreOutcomes : PublishNotify(p, o)
    \/ \E p \in Procs, o \in StoreOutcomes : FetchConfig(p, o, MaxPlaneOps)
    \/ SubConnect(CONFIG_CHANNEL, "ok")
    \/ SubNext(CONFIG_CHANNEL)
    \/ SubStreamEnd(CONFIG_CHANNEL)

SpecPlane == InitPlane /\ [][NextPlane]_vars

\* the subscriber task is scheduled whenever a message is waiting
FairPlane == SpecPlane /\ WF_vars(SubNext(CONFIG_CHANNEL))

\* ---------------------------------------------------------------------
\* SpecSubs: the two subscriber tasks through connection errors, stream
\* ends, well-formed and malformed messages, and a cancellation signal
\* ---------------------------------------------------------------------
NextSubs ==
    \/ PublishConfigUpdate("p1", PlaneS2, "ok", MaxSubOps)
    \/ PublishNotify("p1", "ok")
    \/ PublishPolicyUpdate("p2", CHOOSE u \in PolicyUpdates : TRUE, "ok", MaxSubOps)
    \/ \E ch \in Channels : \E msg \in MalformedMsgs(ch) :
          ForeignPublish(ch, msg, MaxSubOps)
    \/ \E ch \in Channels, o \in {"ok", "connect_err", "subscribe_err"} :
          SubConnect(ch, o)
    \/ \E ch \in Channels : SubSleep(ch)
    \/ \E ch \in Channels : SubNext(ch)
    \/ \E ch \in Channels : SubStreamEnd(ch)
    \/ Cancel

SpecSubs == InitPlane /\ [][NextSubs]_vars

\* the runtime schedules each task: a pending connection attempt, a
\* backoff sleep and a waiting message are each eventually taken
FairSubs ==
    /\ SpecSubs
    /\ \A ch \in Channels :
          /\ WF_vars(\E o \in {"ok", "connect_err", "subscribe_err"} : SubConnect(ch, o))
          /\ WF_vars(SubSleep(ch))
          /\ WF_vars(SubNext(ch))


\* ---------------------------------------------------------------------
\* SpecConsumer: the telemetry consumer task c1, a producer appending two
\* usage records, store failures, and a cancellation signal
\* ---------------------------------------------------------------------
ConsumerRecords ==
    {TelemetryRecord("k1", M_gpt4, 5, 0), TelemetryRecord("k2", M_claude3, 7, 0)}

InitConsumer ==
    /\ InitStore
    /\ connected = TRUE
    /\ telemetryUp = TRUE
    /\ config = EmptyConfig
    /\ router = NewRouter(EmptyConfig)
    /\ stream = <<>>
    /\ spawned = SetToBag(ConsumerRecords)
    /\ lastResolve = NoResolve

NextConsumer ==
    \/ \E rec \in ConsumerRecords : TelemetrySend(rec, TRUE)
    \/ ConsumerCheck("c1")
    \/ \E ok \in BOOLEAN : ConsumerConnect("c1", ok)
    \/ ConsumerSleep("c1")
    \/ \E o \in StoreOutcomes : ConsumerEnsure("c1", o)
    \/ \E o \in StoreOutcomes : ConsumerRecover("c1", o)
    \/ \E o \in StoreOutcomes : ConsumerRead("c1", o)
    \/ \E ok \in BOOLEAN : ConsumerHandle("c1", ok)
    \/ \E o \in StoreOutcomes : ConsumerAck("c1", o)
    \/ ConsumerCancelled("c1")
    \/ PendingIdle(group.pending \ group.idle)
    \/ Cancel

SpecConsumer == InitConsumer /\ [][NextConsumer]_vars

\* the runtime polls the task: each of its steps is eventually taken
FairConsumer ==
    /\ SpecConsumer
    /\ WF_vars(ConsumerCheck("c1"))
    /\ WF_vars(\E ok \in BOOLEAN : ConsumerConnect("c1", ok))
    /\ WF_vars(ConsumerSleep("c1"))
    /\ WF_vars(\E o \in StoreOutcomes : ConsumerEnsure("c1", o))
    /\ WF_vars(\E o \in StoreOutcomes : ConsumerRecover("c1", o))
    /\ WF_vars(\E o \in StoreOutcomes : ConsumerRead("c1", o))
    /\ WF_vars(\E ok \in BOOLEAN : ConsumerHandle("c1", ok))
    /\ WF_vars(\E o \in StoreOutcomes : ConsumerAck("c1", o))

\* ---------------------------------------------------------------------
\* SpecEntries: the consumer task c1 on a stream of two entries written
\* by any producer, through store failures and reconnects. An entry case
\* is the fields of an entry with the UsageRecord the handler is to get,
\* or NoRecord when the entry is to be rejected.
\* ---------------------------------------------------------------------
\* every field present and in range
E_good ==
    [fields |-> << <<"key", <<"k", "1">>>>,
                   <<"model", <<"g", "p", "t", "-", "4">>>>,
                   <<"input_tokens", <<"5">>>>,
                   <<"output_tokens", <<"7">>>>,
                   <<"response_time_ms", <<"1", "2", "0">>>>,
                   <<"timestamp", <<"1", "7", "0", "0">>>> >>,
     expect |-> [some |-> TRUE,
                 key |-> <<"k", "1">>,
                 model |-> <<"g", "p", "t", "-", "4">>,
                 input_tokens |-> <<"5">>,
                 output_tokens |-> <<"7">>,
                 response_time_ms |-> <<"1", "2", "0">>,
                 timestamp |-> <<"1", "7", "0", "0">>]]

\* a number with a plus sign
E_plus ==
    [fields |-> << <<"key", <<"k", "1">>>>,
                   <<"model", <<"g", "p", "t", "-", "4">>>>,
                   <<"input_tokens", <<"+", "5">>>>,
                   <<"output_tokens", <<"7">>>>,
                   <<"response_time_ms", <<"1", "2", "0">>>>,
                   <<"timestamp", <<"1", "7", "0", "0">>>> >>,
     expect |-> [some |-> TRUE,
                 key |-> <<"k", "1">>,
                 model |-> <<"g", "p", "t", "-", "4">>,
                 input_tokens |-> <<"5">>,
                 output_tokens |-> <<"7">>,
                 response_time_ms |-> <<"1", "2", "0">>,
                 timestamp |-> <<"1", "7", "0", "0">>]]

\* a number with leading zeros
E_zeros ==
    [fields |-> << <<"key", <<"k", "1">>>>,
                   <<"model", <<"g", "p", "t", "-", "4">>>>,
                   <<"input_tokens", <<"5">>>>,
                   <<"output_tokens", <<"0", "0", "7">>>>,
                   <<"response_time_ms", <<"1", "2", "0">>>>,
                   <<"timestamp", <<"1", "7", "0", "0">>>> >>,
     expect |-> [some |-> TRUE,
                 key |-> <<"k", "1">>,
                 model |-> <<"g", "p", "t", "-", "4">>,
                 input_tokens |-> <<"5">>,
                 output_tokens |-> <<"7">>,
                 response_time_ms |-> <<"1", "2", "0">>,
                 timestamp |-> <<"1", "7", "0", "0">>]]

\* input_tokens = u32::MAX
E_u32max ==
    [fields |-> << <<"key", <<"k", "1">>>>,
                   <<"model", <<"g", "p", "t", "-", "4">>>>,
                   <<"input_tokens", <<"4", "2", "9", "4", "9", "6", "7", "2", "9", "5">>>>,
                   <<"output_tokens", <<"7">>>>,
                   <<"response_time_ms", <<"1", "2", "0">>>>,
                   <<"timestamp", <<"1", "7", "0", "0">>>> >>,
     expect |-> [some |-> TRUE,
                 key |-> <<"k", "1">>,
                 model |-> <<"g", "p", "t", "-", "4">>,
                 input_tokens |-> <<"4", "2", "9", "4", "9", "6", "7", "2", "9", "5">>,
                 output_tokens |-> <<"7">>,
                 response_time_ms |-> <<"1", "2", "0">>,
                 timestamp |-> <<"1", "7", "0", "0">>]]

\* output_tokens = u32::MAX + 1
E_u32over ==
    [fields |-> << <<"key", <<"k", "1">>>>,
                   <<"model", <<"g", "p", "t", "-", "4">>>>,
                   <<"input_tokens", <<"5">>>>,
                   <<"output_tokens", <<"4", "2", "9", "4", "9", "6", "7", "2", "9", "6">>>>,
                   <<"response_time_ms", <<"1", "2", "0">>>>,
                   <<"timestamp", <<"1", "7", "0", "0">>>> >>,
     expect |-> NoRecord]

\* input_tokens beyond u32
E_u32over_in ==
    [fields |-> << <<"key", <<"k", "1">>>>,
                   <<"model", <<"g", "p", "t", "-", "4">>>>,
                   <<"input_tokens", <<"1", "0", "0", "0", "0", "0", "0", "0", "0", "0", "0">>>>,
                   <<"output_tokens", <<"7">>>>,
                   <<"response_time_ms", <<"1", "2", "0">>>>,
                   <<"timestamp", <<"1", "7", "0", "0">>>> >>,
     expect |-> NoRecord]

\* timestamp = u64::MAX
E_u64max ==
    [fields |-> << <<"key", <<"k", "1">>>>,
                   <<"model", <<"g", "p", "t", "-", "4">>>>,
                   <<"input_tokens", <<"5">>>>,
                   <<"output_tokens", <<"7">>>>,
                   <<"response_time_ms", <<"1", "2", "0">>>>,
                   <<"timestamp", <<"1", "8", "4", "4", "6", "7", "4", "4", "0", "7", "3", "7", "0", "9", "5", "5", "1", "6", "1", "5">>>> >>,
     expect |-> [some |-> TRUE,
                 key |-> <<"k", "1">>,
                 model |-> <<"g", "p", "t", "-", "4">>,
                 input_tokens |-> <<"5">>,
                 output_tokens |-> <<"7">>,
                 response_time_ms |-> <<"1", "2", "0">>,
                 timestamp |-> <<"1", "8", "4", "4", "6", "7", "4", "4", "0", "7", "3", "7", "0", "9", "5", "5", "1", "6", "1", "5">>]]

\* response_time_ms beyond u32 and within u64
E_u64big ==
    [fields |-> << <<"key", <<"k", "1">>>>,
                   <<"model", <<"g", "p", "t", "-", "4">>>>,
                   <<"input_tokens", <<"5">>>>,
                   <<"output_tokens", <<"7">>>>,
                   <<"response_time_ms", <<"4", "2", "9", "4", "9", "6", "7", "2", "9", "6">>>>,
                   <<"timestamp", <<"1", "7", "0", "0">>>> >>,
     expect |-> [some |-> TRUE,
                 key |-> <<"k", "1">>,
                 model |-> <<"g", "p", "t", "-", "4">>,
                 input_tokens |-> <<"5">>,
                 output_tokens |-> <<"7">>,
                 response_time_ms |-> <<"4", "2", "9", "4", "9", "6", "7", "2", "9", "6">>,
                 timestamp |-> <<"1", "7", "0", "0">>]]

\* response_time_ms = u64::MAX + 1
E_u64over ==
    [fields |-> << <<"key", <<"k", "1">>>>,
                   <<"model", <<"g", "p", "t", "-", "4">>>>,
                   <<"input_tokens", <<"5">>>>,
                   <<"output_tokens", <<"7">>>>,
                   <<"response_time_ms", <<"1", "8", "4", "4", "6", "7", "4", "4", "0", "7", "3", "7", "0", "9", "5", "5", "1", "6", "1", "6">>>>,
                   <<"timestamp", <<"1", "7", "0", "0">>>> >>,
     expect |-> NoRecord]

\* timestamp = u64::MAX + 1
E_u64over_ts ==
    [fields |-> << <<"key", <<"k", "1">>>>,
                   <<"model", <<"g", "p", "t", "-", "4">>>>,
                   <<"input_tokens", <<"5">>>>,
                   <<"output_tokens", <<"7">>>>,
                   <<"response_time_ms", <<"1", "2", "0">>>>,
                   <<"timestamp", <<"1", "8", "4", "4", "6", "7", "4", "4", "0", "7", "3", "7", "0", "9", "5", "5", "1", "6", "1", "6">>>> >>,
     expect |-> NoRecord]

\* a negative number
E_neg ==
    [fields |-> << <<"key", <<"k", "1">>>>,
                   <<"model", <<"g", "p", "t", "-", "4">>>>,
                   <<"input_tokens", <<"-", "1">>>>,
                   <<"output_tokens", <<"7">>>>,
                   <<"response_time_ms", <<"1", "2", "0">>>>,
                   <<"timestamp", <<"1", "7", "0", "0">>>> >>,
     expect |-> NoRecord]

\* a timestamp that is not a number
E_nonnum ==
    [fields |-> << <<"key", <<"k", "1">>>>,
                   <<"model", <<"g", "p", "t", "-", "4">>>>,
                   <<"input_tokens", <<"5">>>>,
                   <<"output_tokens", <<"7">>>>,
                   <<"response_time_ms", <<"1", "2", "0">>>>,
                   <<"timestamp", <<"1", "x">>>> >>,
     expect |-> NoRecord]

\* an empty number
E_emptynum ==
    [fields |-> << <<"key", <<"k", "1">>>>,
                   <<"model", <<"g", "p", "t", "-", "4">>>>,
                   <<"input_tokens", <<"5">>>>,
                   <<"output_tokens", <<>>>>,
                   <<"response_time_ms", <<"1", "2", "0">>>>,
                   <<"timestamp", <<"1", "7", "0", "0">>>> >>,
     expect |-> NoRecord]

\* a number with a blank before it
E_spacenum ==
    [fields |-> << <<"key", <<"k", "1">>>>,
                   <<"model", <<"g", "p", "t", "-", "4">>>>,
                   <<"input_tokens", <<"5">>>>,
                   <<"output_tokens", <<"7">>>>,
                   <<"response_time_ms", <<" ", "5">>>>,
                   <<"timestamp", <<"1", "7", "0", "0">>>> >>,
     expect |-> NoRecord]

\* no key
E_nokey ==
    [fields |-> << <<"model", <<"g", "p", "t", "-", "4">>>>,
                   <<"input_tokens", <<"5">>>>,
                   <<"output_tokens", <<"7">>>>,
                   <<"response_time_ms", <<"1", "2", "0">>>>,
                   <<"timestamp", <<"1", "7", "0", "0">>>> >>,
     expect |-> NoRecord]

\* an empty key
E_emptykey ==
    [fields |-> << <<"key", <<>>>>,
                   <<"model", <<"g", "p", "t", "-", "4">>>>,
                   <<"input_tokens", <<"5">>>>,
                   <<"output_tokens", <<"7">>>>,
                   <<"response_time_ms", <<"1", "2", "0">>>>,
                   <<"timestamp", <<"1", "7", "0", "0">>>> >>,
     expect |-> NoRecord]

\* a key of blanks
E_blankkey ==
    [fields |-> << <<"key", <<" ", "\t">>>>,
                   <<"model", <<"g", "p", "t", "-", "4">>>>,
                   <<"input_tokens", <<"5">>>>,
                   <<"output_tokens", <<"7">>>>,
                   <<"response_time_ms", <<"1", "2", "0">>>>,
                   <<"timestamp", <<"1", "7", "0", "0">>>> >>,
     expect |-> NoRecord]

\* no model
E_nomodel ==
    [fields |-> << <<"key", <<"k", "1">>>>,
                   <<"input_tokens", <<"5">>>>,
                   <<"output_tokens", <<"7">>>>,
                   <<"response_time_ms", <<"1", "2", "0">>>>,
                   <<"timestamp", <<"1", "7", "0", "0">>>> >>,
     expect |-> NoRecord]

\* an empty model
E_emptymodel ==
    [fields |-> << <<"key", <<"k", "1">>>>,
                   <<"model", <<>>>>,
                   <<"input_tokens", <<"5">>>>,
                   <<"output_tokens", <<"7">>>>,
                   <<"response_time_ms", <<"1", "2", "0">>>>,
                   <<"timestamp", <<"1", "7", "0", "0">>>> >>,
     expect |-> NoRecord]

\* a model of blanks
E_blankmodel ==
    [fields |-> << <<"key", <<"k", "1">>>>,
                   <<"model", <<" ", " ">>>>,
                   <<"input_tokens", <<"5">>>>,
                   <<"output_tokens", <<"7">>>>,
                   <<"response_time_ms", <<"1", "2", "0">>>>,
                   <<"timestamp", <<"1", "7", "0", "0">>>> >>,
     expect |-> NoRecord]

\* no input_tokens
E_noinput ==
    [fields |-> << <<"key", <<"k", "1">>>>,
                   <<"model", <<"g", "p", "t", "-", "4">>>>,
                   <<"output_tokens", <<"7">>>>,
                   <<"response_time_ms", <<"1", "2", "0">>>>,
                   <<"timestamp", <<"1", "7", "0", "0">>>> >>,
     expect |-> NoRecord]

\* no output_tokens
E_nooutput ==
    [fields |-> << <<"key", <<"k", "1">>>>,
                   <<"model", <<"g", "p", "t", "-", "4">>>>,
                   <<"input_tokens", <<"5">>>>,
                   <<"response_time_ms", <<"1", "2", "0">>>>,
                   <<"timestamp", <<"1", "7", "0", "0">>>> >>,
     expect |-> NoRecord]

\* no response_time_ms
E_nortime ==
    [fields |-> << <<"key", <<"k", "1">>>>,
                   <<"model", <<"g", "p", "t", "-", "4">>>>,
                   <<"input_tokens", <<"5">>>>,
                   <<"output_tokens", <<"7">>>>,
                   <<"timestamp", <<"1", "7", "0", "0">>>> >>,
     expect |-> NoRecord]

\* no timestamp
E_notimestamp ==
    [fields |-> << <<"key", <<"k", "1">>>>,
                   <<"model", <<"g", "p", "t", "-", "4">>>>,
                   <<"input_tokens", <<"5">>>>,
                   <<"output_tokens", <<"7">>>>,
                   <<"response_time_ms", <<"1", "2", "0">>>> >>,
     expect |-> NoRecord]

\* a key with blanks around it
E_padkey ==
    [fields |-> << <<"key", <<" ", "k", "1", " ">>>>,
                   <<"model", <<"g", "p", "t", "-", "4">>>>,
                   <<"input_tokens", <<"5">>>>,
                   <<"output_tokens", <<"7">>>>,
                   <<"response_time_ms", <<"1", "2", "0">>>>,
                   <<"timestamp", <<"1", "7", "0", "0">>>> >>,
     expect |-> [some |-> TRUE,
                 key |-> <<" ", "k", "1", " ">>,
                 model |-> <<"g", "p", "t", "-", "4">>,
                 input_tokens |-> <<"5">>,
                 output_tokens |-> <<"7">>,
                 response_time_ms |-> <<"1", "2", "0">>,
                 timestamp |-> <<"1", "7", "0", "0">>]]

\* one more field
E_extra ==
    [fields |-> << <<"key", <<"k", "1">>>>,
                   <<"model", <<"g", "p", "t", "-", "4">>>>,
                   <<"input_tokens", <<"5">>>>,
                   <<"output_tokens", <<"7">>>>,
                   <<"response_time_ms", <<"1", "2", "0">>>>,
                   <<"timestamp", <<"1", "7", "0", "0">>>>,
                   <<"region", <<"e", "u">>>> >>,
     expect |-> [some |-> TRUE,
                 key |-> <<"k", "1">>,
                 model |-> <<"g", "p", "t", "-", "4">>,
                 input_tokens |-> <<"5">>,
                 output_tokens |-> <<"7">>,
                 response_time_ms |-> <<"1", "2", "0">>,
                 timestamp |-> <<"1", "7", "0", "0">>]]

\* a second well-formed entry
E_later ==
    [fields |-> << <<"key", <<"k", "2">>>>,
                   <<"model", <<"c", "l", "a", "u", "d", "e", "-", "3">>>>,
                   <<"input_tokens", <<"5">>>>,
                   <<"output_tokens", <<"7">>>>,
                   <<"response_time_ms", <<"1", "2", "0">>>>,
                   <<"timestamp", <<"1", "7", "0", "1">>>> >>,
     expect |-> [some |-> TRUE,
                 key |-> <<"k", "2">>,
                 model |-> <<"c", "l", "a", "u", "d", "e", "-", "3">>,
                 input_tokens |-> <<"5">>,
                 output_tokens |-> <<"7">>,
                 response_time_ms |-> <<"1", "2", "0">>,
                 timestamp |-> <<"1", "7", "0", "1">>]]

EntryCases ==
    {E_good, E_plus, E_zeros, E_u32max, E_u32over,
     E_u32over_in, E_u64max, E_u64big, E_u64over, E_u64over_ts,
     E_neg, E_nonnum, E_emptynum, E_spacenum, E_nokey,
     E_emptykey, E_blankkey, E_nomodel, E_emptymodel, E_blankmodel,
     E_noinput, E_nooutput, E_nortime, E_notimestamp, E_padkey,
     E_extra}

LaterCases == {E_later, E_blankmodel}

CaseOf(fields) == CHOOSE e \in EntryCases \cup LaterCases : e.fields = fields

InitEntries ==
    /\ InitStore
    /\ connected = TRUE
    /\ telemetryUp = TRUE
    /\ config = EmptyConfig
    /\ router = NewRouter(EmptyConfig)
    /\ stream \in {<<a.fields, b.fields>> : a \in EntryCases, b \in LaterCases}
    /\ spawned = EmptyBag
    /\ lastResolve = NoResolve

NextEntries ==
    \/ ConsumerCheck("c1")
    \/ ConsumerConnect("c1", TRUE)
    \/ ConsumerEnsure("c1", "ok")
    \/ \E o \in StoreOutcomes : ConsumerRecover("c1", o)
    \/ \E o \in StoreOutcomes : ConsumerRead("c1", o)
    \/ \E ok \in BOOLEAN : ConsumerHandle("c1", ok)
    \/ \E o \in StoreOutcomes : ConsumerAck("c1", o)
    \/ PendingIdle(group.pending \ group.idle)

SpecEntries == InitEntries /\ [][NextEntries]_vars

\* ---------------------------------------------------------------------
\* SpecBackoff: the consumer task c1 on a stream of one entry and the two
\* subscriber tasks, through connection and store failures, with a handler
\* that succeeds
\* ---------------------------------------------------------------------
InitBackoff ==
    /\ InitStore
    /\ connected = TRUE
    /\ telemetryUp = TRUE
    /\ config = EmptyConfig
    /\ router = NewRouter(EmptyConfig)
    /\ stream = <<XaddFields(TelemetryRecord("k1", M_gpt4, 5, 0))>>
    /\ spawned = EmptyBag
    /\ lastResolve = NoResolve

NextBackoff ==
    \/ ConsumerCheck("c1")
    \/ \E ok \in BOOLEAN : ConsumerConnect("c1", ok)
    \/ ConsumerSleep("c1")
    \/ \E o \in StoreOutcomes : ConsumerEnsure("c1", o)
    \/ \E o \in StoreOutcomes : ConsumerRecover("c1", o)
    \/ \E o \in StoreOutcomes : ConsumerRead("c1", o)
    \/ ConsumerHandle("c1", TRUE)
    \/ ConsumerAck("c1", "ok")
    \/ \E ch \in Channels, o \in {"ok", "connect_err", "subscribe_err"} :
          SubConnect(ch, o)
    \/ \E ch \in Channels : SubSleep(ch)

SpecBackoff == InitBackoff /\ [][NextBackoff]_vars

\* ---------------------------------------------------------------------
\* SpecGroup: two consumers of the group on a store where every command
\* succeeds, a producer appending two usage records, and a handler that
\* can fail
\* ---------------------------------------------------------------------
NextGroup ==
    \/ \E rec \in ConsumerRecords : TelemetrySend(rec, TRUE)
    \/ \E c \in Consumers : ConsumerCheck(c)
    \/ \E c \in Consumers : ConsumerConnect(c, TRUE)
    \/ \E c \in Consumers : ConsumerEnsure(c, "ok")
    \/ \E c \in Consumers : ConsumerRecover(c, "ok")
    \/ \E c \in Consumers : ConsumerRead(c, "ok")
    \/ \E c \in Consumers, ok \in BOOLEAN : ConsumerHandle(c, ok)
    \/ \E c \in Consumers : ConsumerAck(c, "ok")
    \/ \E S \in SUBSET group.pending : PendingIdle(S)

SpecGroup == InitConsumer /\ [][NextGroup]_vars

\* ---------------------------------------------------------------------
\* FairDelivery: the consumer task c1 that keeps running on a store where
\* every command succeeds, a producer appending two usage records, and a
\* handler that can fail in its first MaxHandlerFailures invocations only
\* ---------------------------------------------------------------------
NextDelivery ==
    \/ \E rec \in ConsumerRecords : TelemetrySend(rec, TRUE)
    \/ ConsumerCheck("c1")
    \/ ConsumerConnect("c1", TRUE)
    \/ ConsumerEnsure("c1", "ok")
    \/ ConsumerRecover("c1", "ok")
    \/ ConsumerRead("c1", "ok")
    \/ \E ok \in (IF Len(group.handled) < MaxHandlerFailures THEN BOOLEAN ELSE {TRUE}) :
          ConsumerHandle("c1", ok)
    \/ ConsumerAck("c1", "ok")
    \/ PendingIdle(group.pending \ group.idle)

SpecDelivery == InitConsumer /\ [][NextDelivery]_vars

\* the producer's XADD tasks run, the consumer task is polled, and time
\* passes
FairDelivery ==
    /\ SpecDelivery
    /\ WF_vars(\E rec \in ConsumerRecords : TelemetrySend(rec, TRUE))
    /\ WF_vars(ConsumerCheck("c1"))
    /\ WF_vars(ConsumerConnect("c1", TRUE))
    /\ WF_vars(ConsumerEnsure("c1", "ok"))
    /\ WF_vars(ConsumerRecover("c1", "ok"))
    /\ WF_vars(ConsumerRead("c1", "ok"))
    /\ WF_vars(\E ok \in (IF Len(group.handled) < MaxHandlerFailures THEN BOOLEAN ELSE {TRUE}) :
                  ConsumerHandle("c1", ok))
    /\ WF_vars(ConsumerAck("c1", "ok"))
    /\ WF_vars(PendingIdle(group.pending \ group.idle))

\* ---------------------------------------------------------------------
\* SpecWindow: check_rpm calls of two callers on one key over more than
\* one window
\* ---------------------------------------------------------------------
InitWindow ==
    /\ InitStore
    /\ connected = TRUE
    /\ telemetryUp = FALSE
    /\ InitClient(EmptyConfig)

NextWindow ==
    \/ \E p \in Procs, limit \in AllRpmLimits, o \in StoreOutcomes :
          CheckRpm(p, "k1", limit, o, MaxWindowOps)
    \/ \E dt \in TickSteps : Tick(dt, MaxWindowTicks)

SpecWindow == InitWindow /\ [][NextWindow]_vars

\* ---------------------------------------------------------------------
\* SpecRetry: one caller of check_tpm with costs up to the limit; after a
\* rejection the clock can advance by the retry_after of the reply
\* ---------------------------------------------------------------------
RetryLimits == {60, 120}
RetryCosts == {1, 2, 60}

\* p's last check_tpm was rejected with a retry_after
Denied(p) ==
    /\ proc[p].pc = "idle" /\ proc[p].op = "check_tpm"
    /\ proc[p].tpmReply # <<>>
    /\ proc[p].tpmReply[1] = 0

NextRetry ==
    \/ \E limit \in RetryLimits : \E tokens \in {c \in RetryCosts : c <= limit} :
          CheckTpm("p1", "k1", limit, tokens, MaxRetryCalls)
    \/ CheckTpmEval("p1", "ok", "deny")
    \/ Denied("p1") /\ Tick(proc["p1"].tpmReply[2], MaxRetryTicks)
    \/ Tick(1, MaxRetryTicks)

SpecRetry == InitSeq /\ [][NextRetry]_vars

\* ---------------------------------------------------------------------
\* SpecAdmin: requests to the admin HTTP surface, one after the other
\* ---------------------------------------------------------------------
IdTexts == {<<"1">>, <<"2">>, <<"x">>, <<>>}
UniqueValues == {"a", "b"}
DbOutcomes == {"ok", "fail"}

RefLists == {<<>>} \cup {<<a>> : a \in IdTexts} \cup {<<a, b>> : a, b \in IdTexts}

InitAdmin ==
    /\ InitStore
    /\ connected = TRUE
    /\ telemetryUp = FALSE
    /\ InitClient(EmptyConfig)

NextAdmin ==
    \/ \E kind \in Kinds, text \in IdTexts, o \in DbOutcomes :
          AdminGet(kind, text, o, MaxAdminOps)
    \/ \E kind \in Kinds, refs \in RefLists, val \in UniqueValues, o \in DbOutcomes :
          AdminCreate(kind, refs, val, o, MaxAdminOps)

SpecAdmin == InitAdmin /\ [][NextAdmin]_vars

\* ---------------------------------------------------------------------
\* SpecChat: chat calls of one client on a store
\* ---------------------------------------------------------------------
ChatKeys == {"k1", "k2"}
ChatQuotas == ("k1" :> [max_requests_per_minute |-> 1, max_tokens_per_minute |-> 120])
ChatConfig(keys, d) ==
    [api_keys |-> keys, model_aliases |-> (A_my :> T_anthropic_claude3),
     default_provider |-> d, quotas |-> ChatQuotas]
ChatConfigs ==
    {ChatConfig({"openai"}, None), ChatConfig({"openai", "anthropic", "other"}, Other)}
ChatRequests ==
    {[model |-> m, hasMessages |-> TRUE] : m \in {<<>>, M_gpt4, A_my, M_llama}}
        \cup {[model |-> M_gpt4, hasMessages |-> FALSE]}

InitChat ==
    /\ InitStore
    /\ connected = TRUE
    /\ telemetryUp \in BOOLEAN
    /\ \E cfg \in ChatConfigs : InitClient(cfg)

NextChat ==
    \/ \E k \in ChatKeys, req \in ChatRequests, o \in StoreOutcomes :
          Chat("p1", k, req, o, MaxChats)
    \/ \E o \in StoreOutcomes : IsAllowedTpm("p1", o)
    \/ ChatResolve("p1")
    \/ \E ok \in BOOLEAN : ChatHttp("p1", ok, 2, 1)
    \/ \E o \in StoreOutcomes : ChatUsage("p1", o)
    \/ \E rec \in BagToSet(spawned), ok \in BOOLEAN : TelemetrySend(rec, ok)
    \/ Tick(RpmWindow * 1000, MaxChatTicks)

SpecChat == InitChat /\ [][NextChat]_vars

\* =====================================================================
\* Properties
\* =====================================================================
Min(a, b) == IF a < b THEN a ELSE b

RECURSIVE SeqSum(_)
SeqSum(q) == IF q = <<>> THEN 0 ELSE q[1] + SeqSum(Tail(q))

Completed(p, op) == proc[p].pc = "idle" /\ proc[p].op = op

\* C1: n sequential is_allowed(key, 1) calls on a fresh key inside one
\* 60-second window admit exactly min(n, L) calls, L the RPM limit of
\* is_allowed: the RPM script has admitted min(n, L) of the window's n
\* evaluations, and the call that just returned, the n-th of its window,
\* returned true iff n <= L.
C1_SequentialAdmitsMinNL ==
    LET w == rpmWin["k1"] IN
    /\ w.admitted[DefaultRpm] = Min(w.n, DefaultRpm)
    /\ Completed("p1", "is_allowed") => proc["p1"].result = OkBool(w.n <= DefaultRpm)

C1_Witness ==
    /\ Completed("p1", "is_allowed")
    /\ rpmWin["k1"].n = DefaultRpm + 1
    /\ rpmWin["k1"].admitted[DefaultRpm] = DefaultRpm
    /\ proc["p1"].result = OkBool(FALSE)

\* C2: with a store connected, an is_allowed call that returns Ok returns
\* true iff the RPM script admitted it and the GCRA script, evaluated for
\* it, admitted it too; it returns false when either rejected.
C2_AllowedIffBothPass ==
    \A p \in Procs :
        (connected /\ Completed(p, "is_allowed") /\ proc[p].result.kind = "ok") =>
            (proc[p].result.allowed <=>
                /\ proc[p].rpmReply # <<>>
                /\ proc[p].rpmReply[1] = 1
                /\ proc[p].tpmReply # <<>>
                /\ proc[p].tpmReply[1] = 1)

C2_Witness ==
    \E p \in Procs :
        /\ connected
        /\ Completed(p, "is_allowed")
        /\ proc[p].result = OkBool(FALSE)
        /\ proc[p].rpmReply # <<>>
        /\ proc[p].rpmReply[1] = 1
        /\ proc[p].tpmReply # <<>>
        /\ proc[p].tpmReply[1] = 0

\* C3: under any interleaving of is_allowed / check_rpm callers on a key,
\* within one window no counter value is observed twice and, for every
\* limit, the callers admitted against that limit are at most the limit.
C3_RpmSerialized ==
    \A k \in Keys :
        /\ ~rpmWin[k].dup
        /\ \A l \in AllRpmLimits : rpmWin[k].admitted[l] <= l

C3_Witness ==
    \E p, q \in Procs :
        /\ p # q
        /\ proc[p].pc = "ia_tpm"
        /\ proc[p].key = proc[q].key
        /\ Completed(q, "check_rpm")
        /\ proc[q].result = OkPair(FALSE, 0)
        /\ rpmWin[proc[q].key].n >= 2

RECURSIVE AdmittedSum(_, _)
AdmittedSum(log, n) ==
    IF n = 0 THEN 0
    ELSE AdmittedSum(log, n - 1) + (IF log[n].allowed THEN log[n].cost ELSE 0)

\* C5: the GCRA script permits bursts up to capacity: on a fresh key, of the
\* costs submitted at one instant against one limit (with a rate above 0),
\* each is admitted iff the running sum with it stays within capacity, and
\* a denied one gets a positive retry_after.
C5_BurstUpToCapacity ==
    \A k \in Keys : \A i \in DOMAIN tpmLog[k] :
        (/\ tpmLog[k][1].limit \div 60 > 0
         /\ \A j \in 1..i : /\ tpmLog[k][j].at = tpmLog[k][1].at
                            /\ tpmLog[k][j].limit = tpmLog[k][1].limit)
        => /\ tpmLog[k][i].allowed <=>
                 AdmittedSum(tpmLog[k], i - 1) + tpmLog[k][i].cost <= tpmLog[k][i].limit
           /\ ~tpmLog[k][i].allowed => tpmLog[k][i].retry > 0

\* C8: a limiter built without a store URL is permissive after any sequence
\* of calls: is_allowed and check_tpm return Ok(true), check_rpm returns
\* Ok((true, limit)), record_usage returns Ok(()), and nothing is stored.
C8_PermissiveWithoutStore ==
    ~connected =>
        /\ \A p \in Procs :
              /\ proc[p].pc = "idle"
              /\ proc[p].op \in {"is_allowed", "check_tpm"} => proc[p].result = OkBool(TRUE)
              /\ proc[p].op = "check_rpm" => proc[p].result = OkPair(TRUE, proc[p].limit)
              /\ proc[p].op = "record_usage" => proc[p].result = OkUnit
        /\ \A k \in Keys :
              /\ rpm[k] = EmptyRpm
              /\ tpm[k] = EmptyTpm
              /\ usage[k] = [tokens |-> 0, requests |-> 0]

C8_Witness ==
    /\ ~connected
    /\ nOps = MaxOps
    /\ Completed("p1", "check_rpm")
    /\ proc["p1"].result = OkPair(TRUE, 1)
    /\ Completed("p2", "record_usage")

ExpectedTarget(t) ==
    CASE t = T_anthropic_claude3 -> [ok |-> TRUE, model |-> M_claude3, explicit |-> Anthropic]
      [] t = T_Anthropic_gpt4 -> [ok |-> TRUE, model |-> M_gpt4, explicit |-> Anthropic]
      [] t = T_openai_llama -> [ok |-> TRUE, model |-> M_llama, explicit |-> OpenAI]
      [] t = T_unknown_x -> [ok |-> FALSE, model |-> <<"x">>, explicit |-> None]
      [] t = M_llama -> [ok |-> TRUE, model |-> M_llama, explicit |-> None]
      [] t = M_claude3 -> [ok |-> TRUE, model |-> M_claude3, explicit |-> None]

ExpectedInference(m) ==
    CASE m \in {M_gpt4, A_gptc, M_o1, M_o3} -> OpenAI
      [] m = M_claude3 -> Anthropic
      [] OTHER -> None

FirstOf(a, b, c) == IF a # None THEN a ELSE IF b # None THEN b ELSE c

ExpectedResolve(cfg, m) ==
    LET registered == /\ m \in DOMAIN cfg.model_aliases
                      /\ ExpectedTarget(cfg.model_aliases[m]).ok
        t == ExpectedTarget(cfg.model_aliases[m])
        provider == IF registered
                    THEN FirstOf(t.explicit, ExpectedInference(t.model),
                                 cfg.default_provider)
                    ELSE FirstOf(None, ExpectedInference(m), cfg.default_provider)
    IN  IF provider = None THEN Unresolved
        ELSE [some |-> TRUE, model |-> IF registered THEN t.model ELSE m,
              provider |-> provider]

\* C10: resolve follows first-match-wins order: a registered alias gives
\* the alias target with its explicit provider, else the provider inferred
\* from the target, else the default provider; any other model gives the
\* provider inferred from gpt-, o1-, o3- (OpenAI) and claude- (Anthropic),
\* else the default provider; else none.
C10_ResolveOrder ==
    lastResolve # NoResolve =>
        lastResolve.result = ExpectedResolve(config, lastResolve.model)

C10_Witness ==
    /\ lastResolve.model = A_gptc
    /\ A_gptc \in DOMAIN config.model_aliases
    /\ config.model_aliases[A_gptc] = T_Anthropic_gpt4
    /\ config.default_provider = OpenAI
    /\ lastResolve.result = [some |-> TRUE, model |-> M_gpt4, provider |-> Anthropic]

\* C11: the result of router.resolve(m, config) is the resolution that the
\* model_aliases and default_provider of the config passed to the call
\* determine, so it changes when the passed config carries other aliases
\* or another default provider.
C11_ResolveFollowsPassedConfig ==
    lastResolve # NoResolve =>
        lastResolve.result = ExpectedResolve(lastResolve.config, lastResolve.model)

\* C11, the half that holds: a resolve call depends on the model and on
\* the router built at construction, whatever config is passed
C11_ResolveFollowsRouterConfig ==
    lastResolve # NoResolve =>
        lastResolve.result = resolve(NewRouter(config), lastResolve.model)

\* C12: loading a batch of aliases never aborts; the router holds exactly
\* the aliases whose target is well-formed (no prefix, or a prefix naming
\* OpenAI or Anthropic), each with its parsed target, and drops the others.
C12_LoadKeepsWellFormed ==
    /\ DOMAIN router.model_aliases =
           {a \in DOMAIN config.model_aliases :
               ExpectedTarget(config.model_aliases[a]).ok}
    /\ \A a \in DOMAIN router.model_aliases :
           router.model_aliases[a] =
               [model |-> ExpectedTarget(config.model_aliases[a]).model,
                provider |-> ExpectedTarget(config.model_aliases[a]).explicit]

C12_Witness ==
    /\ DOMAIN config.model_aliases = {A_my, A_gptc}
    /\ config.model_aliases[A_my] = T_unknown_x
    /\ config.model_aliases[A_gptc] = T_Anthropic_gpt4
    /\ DOMAIN router.model_aliases = {A_gptc}
    /\ lastResolve.model = A_gptc
    /\ lastResolve.result.some


\* the snapshot without credentials
WithoutApiKeys(cfg) == [cfg EXCEPT !.api_keys = {}]

\* the notifications publish_config_update has published
ConfigNotifications == {i \in DOMAIN sent : "config" \in DOMAIN sent[i].json}

\* C13: publish_config_update(S) writes S under hyperinfer:config before
\* it publishes the notification: for every notification published, the
\* SET of its call has run, the key is present and holds S unless a later
\* SET has replaced it; a call whose SET did not return Ok publishes none.
C13_KeyWrittenBeforeNotify ==
    /\ \A i \in ConfigNotifications :
          /\ sent[i].ver >= 1
          /\ cfgKey.present
          /\ cfgHist.ver >= sent[i].ver
          /\ cfgHist.ver = sent[i].ver => cfgKey.json = sent[i].json.config
    /\ \A p \in Procs :
          (mgr[p].op = "publish_config" /\ ~mgr[p].setOk) =>
              /\ mgr[p].pc = "idle"
              /\ mgr[p].result = "err"
              /\ \A i \in ConfigNotifications : sent[i].call # mgr[p].call

C13_Witness ==
    /\ sub[CONFIG_CHANNEL].last = "applied"
    /\ cfgKey.present
    /\ \E p \in Procs : mgr[p].op = "publish_config" /\ mgr[p].result = "err"
                        /\ ~mgr[p].setOk /\ mgr[p].ver >= 1

\* C14 as stated: a fetch_config that returns Ok returns the snapshot S
\* of the last publish_config_update that wrote the key, and the empty
\* default snapshot when the key is absent.
C14_FetchReturnsPublished ==
    \A p \in Procs :
        (mgr[p].op = "fetch" /\ mgr[p].result = "ok") =>
            mgr[p].fetched = IF mgr[p].sawVer = 0 THEN EmptyConfig
                             ELSE mgr[p].sawSnapshot

\* C14, amended: a fetch_config that returns Ok returns S with api_keys
\* empty, S being the snapshot of the last publish_config_update that wrote
\* the key, and the empty default snapshot when the key is absent; a
\* publish_config_update(S) that returned Ok has written S, which is the
\* last snapshot written unless a later call wrote the key.
C14_FetchReturnsPublishedSansKeys ==
    /\ \A p \in Procs :
          (mgr[p].op = "fetch" /\ mgr[p].result = "ok") =>
              mgr[p].fetched = IF mgr[p].sawVer = 0 THEN EmptyConfig
                               ELSE WithoutApiKeys(mgr[p].sawSnapshot)
    /\ \A p \in Procs :
          (mgr[p].op = "publish_config" /\ mgr[p].result = "ok") =>
              /\ cfgKey.present
              /\ cfgHist.ver >= mgr[p].ver
              /\ cfgHist.ver = mgr[p].ver => cfgHist.snapshot = mgr[p].cfg

C14_Witness ==
    \E p, q \in Procs :
        /\ mgr[p].op = "fetch" /\ mgr[p].result = "ok"
        /\ mgr[p].sawSnapshot = PlaneS3
        /\ mgr[p].fetched = WithoutApiKeys(PlaneS3)
        /\ mgr[q].op = "publish_config" /\ mgr[q].result = "ok"
        /\ mgr[q].ver = mgr[p].sawVer

\* the config subscriber holds a notification for snapshot S that it has
\* not taken yet
Notified(S) ==
    \E i \in DOMAIN sub[CONFIG_CHANNEL].inbox :
        LET j == sub[CONFIG_CHANNEL].inbox[i].json IN
        /\ "config" \in DOMAIN j
        /\ j.config.model_aliases = S.model_aliases

WholeSnapshot == config \in {PlaneS1} \cup {WithoutApiKeys(S) : S \in PlaneConfigs}

C16_NoApiKeysOnTheWire ==
    /\ "api_keys" \notin DOMAIN cfgKey.json
    /\ \A i \in ConfigNotifications : "api_keys" \notin DOMAIN sent[i].json.config

C16_Witness ==
    /\ cfgKey.present
    /\ cfgHist.snapshot.api_keys # {}
    /\ \E i \in ConfigNotifications : sent[i].ver = cfgHist.ver

\* the step in which the subscriber of ch takes a message from its stream
Takes(ch) == sub'[ch].taken = sub[ch].taken + 1

\* C17: a malformed message on the config or policy channel is skipped
\* without effect: the step that takes it leaves the shared config and the
\* policy callback's invocations as they were and the subscriber
\* subscribed; a well-formed message taken afterwards is applied.
C17_MalformedSkipped ==
    [][\A ch \in Channels :
          Takes(ch) =>
              IF Head(sub[ch].inbox) \in MalformedMsgs(ch)
              THEN /\ config' = config
                   /\ policyCalls' = policyCalls
                   /\ sub'[ch].pc = "listening"
                   /\ sub'[ch].inbox = Tail(sub[ch].inbox)
              ELSE IF ch = CONFIG_CHANNEL
              THEN config' = PlaneS2 /\ policyCalls' = policyCalls
              ELSE /\ policyCalls' = Append(policyCalls, Head(sub[ch].inbox).json)
                   /\ config' = config]_vars

C17_Witness ==
    /\ sub[CONFIG_CHANNEL].skipped = 1
    /\ sub[CONFIG_CHANNEL].taken = 2
    /\ sub[CONFIG_CHANNEL].last = "applied"
    /\ sub[CONFIG_CHANNEL].pc = "listening"
    /\ config = PlaneS2

\* C18: the subscriber tasks never terminate on their own.
C18_SubscribersNeverTerminate ==
    \A ch \in Channels : sub[ch].pc # "done"

\* C19, for the two subscriber tasks: once the cancellation signal has
\* fired, each task eventually terminates.
C19_SubscribersStopOnCancel ==
    cancelled ~> (\A ch \in Channels : sub[ch].pc = "done")


\* C19, for the telemetry consumer: once the cancellation signal has fired
\* the consumer task eventually terminates.
C19_ConsumerStopsOnCancel == cancelled ~> consumer["c1"].pc = "done"

\* C20: the telemetry consumer exits only between reads: when the task has
\* exited, no entry of a batch whose read returned is left unprocessed.
C20_NoExitMidBatch == consumer["c1"].pc = "done" => consumer["c1"].batch = <<>>


\* the step in which a consumer's XACK removes an entry from the pending list
AckedIn(c, id) ==
    /\ consumer[c].pc = "processing"
    /\ consumer[c].await = "ack"
    /\ Head(consumer[c].batch) = id

\* the step in which the handler of consumer c returns an error
HandlerFailsIn(c) ==
    /\ consumer[c].pc = "processing"
    /\ consumer[c].await = "handler"
    /\ consumer'[c].pc # "done"
    /\ consumer'[c] # consumer[c]
    /\ consumer'[c].outcome = "err"

\* C21: an entry is acknowledged only after its handler returned success
\* or after it failed to parse; when the handler returns an error the
\* entry is not acknowledged and stays in the group's pending list.
C21_AckDiscipline ==
    [][/\ \A id \in group.pending \ group'.pending :
             \E c \in Consumers :
                /\ AckedIn(c, id)
                /\ consumer[c].outcome =
                      IF parse_entry(stream[id]).some THEN "ok" ELSE "unparsed"
       /\ \A c \in Consumers :
             HandlerFailsIn(c) =>
                /\ Head(consumer[c].batch) \in group'.pending
                /\ group'.pending = group.pending]_vars

\* a handler error left its entry pending, while the entry after it, whose
\* handler succeeded, was acknowledged
C21_Witness ==
    /\ \E i \in 1..Len(group.handled) :
          ~group.handled[i].ok /\ group.handled[i].id \in group.pending
    /\ \E i \in 1..Len(group.handled) :
          group.handled[i].ok /\ group.handled[i].id \notin group.pending
    /\ consumer["c1"].pc = "reading"


\* the step in which process_entry of consumer c parses the entry at the
\* head of its batch and, when it parses, runs the handler on it
ProcessedIn(c) ==
    /\ consumer[c].pc = "processing"
    /\ consumer[c].await = "handler"
    /\ consumer'[c].pc # "done"
    /\ consumer'[c] # consumer[c]

\* the step in which the XACK of consumer c returns
AckReturnsIn(c) ==
    /\ consumer[c].pc = "processing"
    /\ consumer[c].await = "ack"
    /\ consumer'[c].pc # "done"
    /\ consumer'[c] # consumer[c]

\* C22: the handler receives exactly the well-formed entries. An entry
\* whose key or model is missing, empty or blank, or one of whose numbers
\* is missing or does not parse within its range, is not passed to the
\* handler and its XACK is issued; every other entry is passed to the
\* handler with its fields unchanged; and after a rejected entry the task
\* goes on with the next entry of the batch.
C22_HandlerGetsWellFormed ==
    [][\A c \in Consumers :
         /\ ProcessedIn(c) =>
               LET id == Head(consumer[c].batch)
                   expect == CaseOf(stream[id]).expect
                   n == Len(group.handled)
               IN  IF expect.some
                   THEN n < MaxHandled =>
                          /\ Len(group'.handled) = n + 1
                          /\ SubSeq(group'.handled, 1, n) = group.handled
                          /\ group'.handled[n + 1].c = c
                          /\ group'.handled[n + 1].id = id
                          /\ group'.handled[n + 1].rec = expect
                   ELSE /\ group'.handled = group.handled
                        /\ consumer'[c].await = "ack"
                        /\ consumer'[c].batch = consumer[c].batch
         /\ AckReturnsIn(c) =>
               IF Len(consumer[c].batch) > 1
               THEN /\ consumer'[c].batch = Tail(consumer[c].batch)
                    /\ consumer'[c].await = "handler"
                    /\ consumer'[c].pc = "processing"
               ELSE consumer'[c].pc = "inner_top"]_vars

\* the first entry of the stream was rejected and acknowledged, and the
\* handler then got the second entry as it was written
C22_Witness ==
    /\ Len(stream) = 2
    /\ ~CaseOf(stream[1]).expect.some
    /\ group.last = 2
    /\ 1 \notin group.pending
    /\ group.handled # <<>>
    /\ group.handled[1].id = 2
    /\ group.handled[1].rec = E_later.expect
    /\ group.handled[1].rec.timestamp = <<"1", "7", "0", "1">>


\* the entry was delivered and has left the pending list: its XACK ran,
\* which follows a successful handler or a failed parse
Acknowledged(id) == id <= group.last /\ id \notin group.pending

\* C23: at-least-once delivery. With the store reachable and a handler
\* that eventually succeeds, every well-formed entry appended to the stream
\* is eventually handled with success and acknowledged by the consumer
\* that keeps running; an entry whose handler failed is reclaimed and
\* handled again.
C23_EveryEntryDelivered ==
    <>[](/\ Len(stream) = Cardinality(ConsumerRecords)
         /\ \A id \in 1..Len(stream) : Acknowledged(id))

\* C23, as far as it holds: an entry whose handler did not fail is
\* eventually acknowledged.
C23_DeliveredUnlessHandlerFailed ==
    <>[](/\ Len(stream) = Cardinality(ConsumerRecords)
         /\ \A id \in 1..Len(stream) :
               \/ Acknowledged(id)
               \/ \E i \in 1..Len(group.handled) :
                     group.handled[i].id = id /\ ~group.handled[i].ok)


\* The store commands of the consumer fail for certain while the group
\* does not exist: XGROUP CREATE that leaves it missing has failed, and
\* XAUTOCLAIM and XREADGROUP on a missing group return NOGROUP. Such a
\* step is one in which the command awaited at pc returns an error to c.
StoreErrorIn(c, pc) ==
    /\ consumer[c].pc = pc
    /\ consumer'[c] # consumer[c]
    /\ consumer'[c].pc # "done"
    /\ ~group'.created

\* C24: on a store error in group creation, in recovery or in a batch
\* read the consumer abandons the connection and sleeps for the current
\* backoff delay before it connects again.
C24_StoreErrorSleepsAndReconnects ==
    [][\A c \in Consumers :
         \A pc \in {"ensure", "recover", "reading"} :
            StoreErrorIn(c, pc) => consumer'[c].pc = "backoff"]_vars

\* C24, as far as it holds: after an error of the batch read the next
\* step of the task is the loop top that connects again, with the
\* backoff doubled and no sleep.
C24_ReadErrorReconnects ==
    [][\A c \in Consumers :
         StoreErrorIn(c, "reading") =>
            /\ consumer'[c].pc = "top"
            /\ consumer'[c].backoff =
                  IF 2 * consumer[c].backoff < MAX_BACKOFF_SECS
                  THEN 2 * consumer[c].backoff ELSE MAX_BACKOFF_SECS]_vars


\* the delay that follows a delay after a failure
NextDelay == (1 :> 2) @@ (2 :> 4) @@ (4 :> 8) @@ (8 :> 16) @@ (16 :> 32)
             @@ (32 :> 60) @@ (60 :> 60)

\* the step in which a batch read of consumer c returns Ok: an empty
\* reply, or the end of the processing of the entries read
BatchReadOkIn(c) ==
    /\ consumer'[c].pc = "inner_top"
    /\ IF consumer[c].pc = "reading" THEN TRUE
       ELSE consumer[c].pc = "processing" /\ consumer[c].mode = "read"

\* the step in which consumer c ends the sleep after a failed connection
\* attempt, or sees a batch read fail
ConsumerFailureIn(c) ==
    /\ consumer'[c].pc = "top"
    /\ consumer[c].pc \in {"backoff", "reading"}

\* C25: the reconnect delay of the telemetry consumer and of both
\* subscribers is always one of 1, 2, 4, 8, 16, 32, 60 seconds; it starts
\* at 1 and doubles after each failure up to the cap 60; the consumer's is
\* back to 1 after any successful batch read, and nothing else changes it.
C25_BackoffValues ==
    /\ \A c \in Consumers : consumer[c].backoff = 1
    /\ \A ch \in Channels : sub[ch].backoff = 1
    /\ [][/\ \A c \in Consumers :
              /\ consumer'[c].backoff \in DOMAIN NextDelay
              /\ consumer'[c].backoff =
                    IF ConsumerFailureIn(c) THEN NextDelay[consumer[c].backoff]
                    ELSE IF BatchReadOkIn(c) THEN 1
                    ELSE consumer[c].backoff
          /\ \A ch \in Channels :
              /\ sub'[ch].backoff \in DOMAIN NextDelay
              /\ sub'[ch].backoff =
                    IF sub[ch].pc = "backoff" /\ sub'[ch].pc = "connect"
                    THEN NextDelay[sub[ch].backoff]
                    ELSE sub[ch].backoff]_vars

\* all three tasks have reached the cap, the consumer through failed
\* connection attempts and failed reads after a batch it had read
C25_Witness ==
    /\ consumer["c1"].backoff = 60
    /\ group.last = 1
    /\ \A ch \in Channels : sub[ch].backoff = 60


\* C26: within a single consumer there is no reordering: over its whole
\* run, recovery and reconnects included, the handler is invoked on
\* entries in increasing order of their ids.
C26_HandlerOrderIncreasing ==
    \A i, j \in 1..Len(group.handled) :
       (i < j /\ group.handled[i].c = group.handled[j].c)
          => group.handled[i].id <= group.handled[j].id

\* C26, as far as it holds: the entries of one batch, read or reclaimed,
\* are processed in increasing order of their ids, one at a time.
C26_BatchOrderIncreasing ==
    \A c \in Consumers :
       \A i, j \in 1..Len(consumer[c].batch) :
          i < j => consumer[c].batch[i] < consumer[c].batch[j]


\* the entries consumer c has taken for processing and not finished
InBatch(c) == {consumer[c].batch[i] : i \in 1..Len(consumer[c].batch)}

\* the step delivers entry id, never delivered before, to consumer c alone
NewlyDeliveredTo(c, id) ==
    /\ consumer[c].pc = "reading"
    /\ id > group.last
    /\ id \notin group.pending
    /\ group'.owner[id] = c
    /\ \A d \in Consumers \ {c} : id \notin {consumer'[d].batch[i] :
                                                i \in 1..Len(consumer'[d].batch)}

\* the step is the reclamation by c of entry id, idle for XAUTOCLAIM_IDLE_MS
ReclaimedBy(c, id) ==
    /\ consumer[c].pc = "recover"
    /\ id \in group.idle
    /\ id \in group.pending
    /\ group'.owner[id] = c

\* C27: across the consumers of the group each pending entry has one
\* owner at a time: a new entry is delivered to a single consumer, and a
\* consumer takes an entry that is pending, for another consumer or for
\* itself, only by reclaiming it after it has been idle for 600000 ms;
\* only by these two ways does an entry come to a consumer's handler.
C27_OneOwnerAtATime ==
    [][/\ DOMAIN group'.owner = group'.pending
       /\ \A id \in group'.pending \ group.pending :
             NewlyDeliveredTo(group'.owner[id], id)
       /\ \A id \in group'.pending \cap group.pending :
             group'.owner[id] # group.owner[id] => ReclaimedBy(group'.owner[id], id)
       /\ \A c \in Consumers :
             \A id \in {consumer'[c].batch[i] : i \in 1..Len(consumer'[c].batch)}
                       \ InBatch(c) :
                IF id \in group.pending THEN ReclaimedBy(c, id)
                ELSE NewlyDeliveredTo(c, id)]_vars

\* an entry delivered to one consumer, left unacknowledged and idle, was
\* reclaimed by the other, and both have run the handler on it
C27_Witness ==
    \E i, j \in 1..Len(group.handled) :
       /\ i < j
       /\ group.handled[i].id = group.handled[j].id
       /\ group.handled[i].c # group.handled[j].c
       /\ group.handled[j].id \in group.pending
       /\ group.owner[group.handled[j].id] = group.handled[j].c


\* the number of XADD tasks the step spawns
Issued == BagCardinality(spawned' (-) spawned)

\* the step in which the provider's response arrives for the chat call of p
ResponseIn(p) == proc[p].pc = "c_http" /\ proc'[p].pc = "c_usage"

\* the step in which the chat call of p returns
ChatReturnsIn(p) ==
    /\ proc[p].op = "chat" \/ proc'[p].op = "chat"
    /\ proc'[p].pc = "idle"
    /\ proc'[p] # proc[p]

\* a chat call gets at most one response, and it returns Ok exactly when
\* it got one
OneResponsePerCall ==
    \A p \in Procs :
       /\ (proc'[p].pc = "c_usage" /\ proc'[p] # proc[p]) => ResponseIn(p)
       /\ ChatReturnsIn(p) =>
             (proc'[p].result = OkUnit <=> proc[p].pc = "c_usage")

\* C28: every chat call that returns a response issues exactly one
\* telemetry record, and a chat call that ends in an error issues none.
C28_OneRecordPerResponse ==
    [][/\ OneResponsePerCall
       /\ Issued = Cardinality({p \in Procs : ResponseIn(p)})]_vars

\* C28, amended: a chat call that returns a response issues exactly one
\* telemetry record when the telemetry producer holds a store connection
\* and none when it does not; a chat call that ends in an error issues
\* none.
C28_OneRecordPerResponseWhenUp ==
    [][/\ OneResponsePerCall
       /\ Issued = IF telemetryUp THEN Cardinality({p \in Procs : ResponseIn(p)})
                   ELSE 0]_vars

\* two chat calls have returned a response and the record of each is with
\* its XADD task
C28_Witness ==
    /\ telemetryUp
    /\ nOps = 2
    /\ Completed("p1", "chat")
    /\ proc["p1"].result = OkUnit
    /\ BagCardinality(spawned) = 2


\* the records the step hands to new XADD tasks
IssuedRecords == BagToSet(spawned' (-) spawned)

\* C29: the usage record issued for a completed chat call carries the
\* caller's key, the resolved target model, and the input_tokens and
\* output_tokens of the usage of the provider response.
C29_RecordCarriesUsage ==
    [][\A p \in Procs :
         (ResponseIn(p) /\ telemetryUp) =>
            \A rec \in IssuedRecords :
               /\ rec.key = proc[p].key
               /\ rec.model = proc[p].target.model
               /\ rec.input_tokens = proc'[p].resp.input_tokens
               /\ rec.output_tokens = proc'[p].resp.output_tokens]_vars

\* C29, as far as it holds: the record carries the caller's key and the
\* resolved target model, with both token counts 0.
C29_RecordCarriesKeyAndModel ==
    [][\A p \in Procs :
         (ResponseIn(p) /\ telemetryUp) =>
            /\ IssuedRecords # {}
            /\ \A rec \in IssuedRecords :
                  /\ rec.key = proc[p].key
                  /\ rec.model = proc[p].target.model
                  /\ rec.model = ExpectedResolve(config, proc[p].req.model).model
                  /\ rec.input_tokens = 0
                  /\ rec.output_tokens = 0]_vars


\* the stages of a chat call in their order; the call has Returned when it
\* has given the response back
StageOrder == <<"validated", "admitted", "resolved", "dispatched">>

IsStage(x) == \E i \in 1..Len(StageOrder) : StageOrder[i] = x

\* the stages a call has passed, in the order it passed them
Stages(rec) == SelectSeq(rec.trace, IsStage)

\* the place of a program point in the body of chat
ChatRank(pc) ==
    CASE pc = "idle" -> 0
      [] pc = "ia_tpm" -> 1
      [] pc = "c_resolve" -> 2
      [] pc = "c_http" -> 3
      [] pc = "c_usage" -> 4

\* the errors a call can return after the stages it has passed
StageErrors(n) ==
    CASE n = 0 -> {"invalid"}
      [] n = 1 -> {"rate_limit_store", "rate_limit_exceeded"}
      [] n = 2 -> {"unknown_model"}
      [] n = 3 -> {"no_api_key", "unsupported"}
      [] n = 4 -> {"provider"}

\* C30: a chat call passes the stages Validated, Admitted, Resolved,
\* Dispatched, Returned in that order. The provider is called only after
\* validation, admission by the rate limiter, resolution and the
\* credential lookup have succeeded; a rejection ends the call with the
\* error of its stage and no later stage runs; the call never goes back,
\* so the rate limiter is consulted and the provider called at most once.
C30_StagesInOrder ==
    [][\A p \in Procs :
         (proc'[p].op = "chat" /\ proc'[p] # proc[p]) =>
            LET rec == proc'[p]
                n == Len(Stages(rec))
            IN  /\ Stages(rec) = SubSeq(StageOrder, 1, n)
                /\ rec.pc # "idle" => ChatRank(rec.pc) > ChatRank(proc[p].pc)
                /\ rec.pc = "c_http" =>
                      /\ rec.req.model # <<>> /\ rec.req.hasMessages
                      /\ rec.rpmReply[1] = 1 /\ rec.tpmReply[1] = 1
                      /\ rec.target = ExpectedResolve(config, rec.req.model)
                      /\ rec.target.some
                      /\ ProviderName(rec.target.provider) \in config.api_keys
                      /\ n = 3
                /\ rec.pc = "c_usage" => proc[p].pc = "c_http" /\ n = 4
                /\ rec.pc = "idle" =>
                      IF proc[p].pc = "c_usage" THEN rec.result = OkUnit /\ n = 4
                      ELSE /\ rec.result.kind = "err"
                           /\ rec.result.why \in StageErrors(n)
                           /\ n <= ChatRank(proc[p].pc) + 1]_vars

\* a chat call went through every stage and returned the response
C30_Witness ==
    /\ Completed("p1", "chat")
    /\ proc["p1"].result = OkUnit
    /\ proc["p1"].trace =
          <<"validated", "admitted", "resolved", "dispatched", "telemetry", "usage">>


\* the step in which record_usage returns to the chat call of p
UsageReturnsIn(p) == proc[p].pc = "c_usage" /\ proc'[p] # proc[p]

\* C31: best-effort accounting never fails a chat call. Once the provider
\* call has succeeded, telemetry.record returns whatever the state of the
\* store and chat goes on to record_usage; chat then returns Ok with the
\* provider's response as it was received, whether the usage transaction
\* and the telemetry append succeeded or failed; a producer built without
\* a connection spawns no append and the stream stays as it was.
C31_BestEffortAccounting ==
    [][/\ \A p \in Procs :
            /\ (proc[p].pc = "c_http" /\ proc'[p].result.kind # "err"
                   /\ proc'[p] # proc[p]) =>
                    /\ proc'[p].pc = "c_usage"
                    /\ Issued = IF telemetryUp THEN 1 ELSE 0
            /\ UsageReturnsIn(p) =>
                    /\ proc'[p].pc = "idle"
                    /\ proc'[p].result = OkUnit
                    /\ proc'[p].resp = proc[p].resp
       /\ ~telemetryUp => (stream' = stream /\ spawned' = EmptyBag)]_vars

\* a chat call returned the response although the usage transaction did
\* not run and the append of its telemetry record failed
C31_Witness ==
    /\ telemetryUp
    /\ nOps = 1
    /\ Completed("p1", "chat")
    /\ proc["p1"].result = OkUnit
    /\ proc["p1"].resp = [input_tokens |-> 2, output_tokens |-> 1]
    /\ usage[proc["p1"].key].requests = 0
    /\ spawned = EmptyBag
    /\ stream = <<>>


\* C32: on the admin HTTP surface a database error maps to a status by
\* its kind, for every GET and POST handler: invalid-uuid gives 400,
\* not-found gives 404, unique-violation gives 409, any other error 500.
C32_StatusByErrorKind ==
    (admin.n > 0 /\ ~admin.res.ok) =>
        admin.status =
            CASE admin.res.error = "InvalidUuid" -> 400
              [] admin.res.error = "NotFound" -> 404
              [] admin.res.error = "UniqueViolation"
                   \/ admin.res.cause = "unique_violation" -> 409
              [] OTHER -> 500

\* C32, as the handlers are written: every error of the database call
\* gives 500, an absent row gives 404 and a row gives 200.
C32_EveryErrorGives500 ==
    admin.n > 0 =>
        admin.status =
            IF ~admin.res.ok THEN 500
            ELSE IF admin.method = "GET" /\ ~admin.res.some THEN 404
            ELSE 200


\* the step in which is_allowed of p gets the outcome of its RPM evaluation
RpmEvalIn(p) ==
    /\ connected
    /\ proc[p].pc = "idle"
    /\ proc'[p].op = "is_allowed"
    /\ proc'[p] # proc[p]

\* the step in which is_allowed of p gets the outcome of its GCRA evaluation
GcraEvalIn(p) ==
    /\ proc[p].op = "is_allowed"
    /\ proc[p].pc = "ia_tpm"
    /\ proc'[p] # proc[p]

\* C33: the RPM and TPM checks of one is_allowed call are not atomic
\* together. The GCRA evaluation is a later step than the RPM evaluation
\* and runs only for a call the RPM script admitted; it never touches the
\* RPM counter, so when it rejects, is_allowed returns false and the
\* counter keeps the increment: a live counter always equals the number
\* of RPM evaluations of its window, whatever became of the calls. When
\* the RPM check rejects, is_allowed returns false in that step and the
\* GCRA script is not evaluated.
C33_RpmKeptWhenTpmRejects ==
    [][/\ \A p \in Procs :
            /\ GcraEvalIn(p) =>
                  /\ proc[p].rpmReply[1] = 1
                  /\ rpm' = rpm
                  /\ (proc'[p].tpmReply # <<>> /\ proc'[p].tpmReply[1] = 0) =>
                        proc'[p].pc = "idle" /\ proc'[p].result = OkBool(FALSE)
            /\ (RpmEvalIn(p) /\ proc'[p].rpmReply # <<>> /\ proc'[p].rpmReply[1] = 0) =>
                  /\ proc'[p].pc = "idle"
                  /\ proc'[p].result = OkBool(FALSE)
                  /\ proc'[p].tpmReply = <<>>
                  /\ tpm' = tpm
                  /\ tpmLog' = tpmLog
       /\ \A k \in Keys : rpm'[k].count > 0 => rpm'[k].count = rpmWin'[k].n]_vars

\* the second call of the window was admitted by the RPM script and
\* rejected by the GCRA script: it returned false and the counter stands
\* at 2, with 58 slots left for the window
C33_Witness ==
    /\ Completed("p1", "is_allowed")
    /\ proc["p1"].result = OkBool(FALSE)
    /\ proc["p1"].rpmReply = <<1, DefaultRpm - 2, 0>>
    /\ proc["p1"].tpmReply # <<>>
    /\ proc["p1"].tpmReply[1] = 0
    /\ rpm[proc["p1"].key].count = 2
    /\ rpmWin[proc["p1"].key].admitted[DefaultRpm] = 2
    /\ Len(tpmLog[proc["p1"].key]) = 2
    /\ tpmLog[proc["p1"].key][1].allowed
    /\ ~tpmLog[proc["p1"].key][2].allowed


\* the step in which the chat call of p starts: validation and, for a
\* valid request, the RPM evaluation of is_allowed
ChatStartsIn(p) ==
    /\ proc[p].pc = "idle"
    /\ proc'[p].op = "chat"
    /\ proc'[p] # proc[p]

\* a later step of the chat call of p
ChatGoesOnIn(p) ==
    /\ proc[p].op = "chat"
    /\ proc[p].pc # "idle"
    /\ proc'[p] # proc[p]

WellFormed(req) == req.model # <<>> /\ req.hasMessages

\* what every chat call does to the rate-limit state: an invalid request
\* leaves it alone, and after the first step no step touches the RPM
\* counter and only the GCRA evaluation touches the TPM state
ChatBudgetFrame(p) ==
    /\ (ChatStartsIn(p) /\ ~WellFormed(proc'[p].req)) =>
          /\ rpm' = rpm /\ tpm' = tpm
          /\ proc'[p].result = ChatErr("invalid")
    /\ ChatStartsIn(p) =>
          /\ tpm' = tpm
          /\ \A k \in Keys \ {proc'[p].key} : rpm'[k] = rpm[k]
    /\ ChatGoesOnIn(p) =>
          /\ rpm' = rpm
          /\ proc[p].pc # "ia_tpm" => tpm' = tpm

\* C34: each chat call consumes the rate-limit budget exactly once or not
\* at all. A request that fails validation leaves the key's RPM counter
\* and TPM state unchanged; a request that passes validation increments
\* the RPM counter by exactly 1 whatever happens later (unknown model,
\* missing credential, provider error or success), with no refund.
C34_BudgetConsumedOnce ==
    [][\A p \in Procs :
         /\ ChatBudgetFrame(p)
         /\ (ChatStartsIn(p) /\ WellFormed(proc'[p].req)) =>
               rpm'[proc'[p].key].count = rpm[proc'[p].key].count + 1]_vars

\* C34, amended: a request that passes validation increments the RPM
\* counter by exactly 1, except when the store fails before it runs the
\* RPM script: the call then returns the rate-limit error and the counter
\* is as it was. Everything else as in C34.
C34_BudgetConsumedOnceIfStoreRuns ==
    [][\A p \in Procs :
         /\ ChatBudgetFrame(p)
         /\ (ChatStartsIn(p) /\ WellFormed(proc'[p].req)) =>
               IF rpm' = rpm
               THEN /\ proc'[p].pc = "idle"
                    /\ proc'[p].result = ChatErr("rate_limit_store")
               ELSE rpm'[proc'[p].key].count = rpm[proc'[p].key].count + 1]_vars

\* two valid requests on one key, the first ended at resolution or at the
\* provider and the second ended with a provider error: the counter is 2
C34_Witness ==
    /\ nOps = 2
    /\ Completed("p1", "chat")
    /\ proc["p1"].result = ChatErr("provider")
    /\ rpm[proc["p1"].key].count = 2
    /\ usage[proc["p1"].key].requests = 0


\* the step is an evaluation of RPM_SCRIPT on key k
RpmEvaluatedIn(k) == now' = now /\ rpm'[k] # rpm[k]

\* the check_rpm call of p returns Ok in this step
CheckRpmOkIn(p) ==
    /\ proc[p].pc = "idle"
    /\ proc'[p] # proc[p]
    /\ proc'[p].op = "check_rpm"
    /\ proc'[p].result.kind = "ok"

\* C35: the RPM window is fixed, not sliding. Only the request that
\* creates the counter sets its 60-second expiry; later requests of the
\* window, admitted or rejected, increment the counter and leave the expiry
\* as it is; the counter is gone exactly when 60 seconds have passed since
\* the first request of the window, and the next request then creates it
\* again and is admitted with remaining = limit - 1.
C35_FixedWindow ==
    [][/\ \A k \in Keys :
            /\ RpmEvaluatedIn(k) =>
                  IF rpm[k].count = 0
                  THEN rpm'[k] = [count |-> 1, expireAt |-> now + RpmWindow * 1000]
                  ELSE rpm'[k] = [count |-> rpm[k].count + 1,
                                  expireAt |-> rpm[k].expireAt]
            /\ rpm'[k].count > 0 =>
                  /\ rpmWin'[k].open
                  /\ rpm'[k].expireAt = rpmWin'[k].start + RpmWindow * 1000
                  /\ rpm'[k].count = rpmWin'[k].n
                  /\ now' < rpm'[k].expireAt
            /\ (rpm[k].count > 0 /\ rpm'[k].count = 0) =>
                  now' >= rpmWin[k].start + RpmWindow * 1000
       /\ \A p \in Procs :
            CheckRpmOkIn(p) =>
               LET k == proc'[p].key
                   limit == proc'[p].limit
                   current == rpm'[k].count
               IN  /\ RpmEvaluatedIn(k)
                   /\ proc'[p].result =
                         IF current > limit THEN OkPair(FALSE, 0)
                         ELSE OkPair(TRUE, limit - current)
                   /\ rpm[k].count = 0 =>
                         proc'[p].result = OkPair(TRUE, limit - 1)]_vars

\* the first window got three requests; 60 seconds after its first
\* request the counter was gone, and the next request, at limit 1, was
\* admitted with remaining 0 and opened the window that expires 60
\* seconds after that request
C35_Witness ==
    /\ nOps = 4
    /\ Completed("p1", "check_rpm")
    /\ proc["p1"].limit = 1
    /\ proc["p1"].result = OkPair(TRUE, 0)
    /\ now = RpmWindow * 1000 + 1
    /\ rpmWin["k1"].start = RpmWindow * 1000
    /\ rpm["k1"] = [count |-> 1, expireAt |-> 2 * RpmWindow * 1000]


\* the step in which recover_pending_messages of c gets the outcome of
\* its XAUTOCLAIM
RecoveryIn(c) == consumer[c].pc = "recover" /\ consumer'[c] # consumer[c]

\* C36: on every successful (re)connection the consumer ensures that the
\* consumer group exists and then runs pending-entry recovery to
\* completion before its first steady-state group read: when recovery
\* runs the group exists, and recovery hands every entry that can be
\* reclaimed to the processing path before the task goes on to read.
C36_RecoveryCompleteBeforeRead ==
    [][\A c \in Consumers :
         RecoveryIn(c) =>
            /\ group.created
            /\ IF Claimable(group) = {}
               THEN consumer'[c].pc = "inner_top"
               ELSE /\ consumer'[c].pc = "processing"
                    /\ consumer'[c].mode = "recover"
                    /\ consumer'[c].batch = Ascending(Claimable(group))]_vars

\* C36, as far as it holds: after a successful connection the task calls
\* ensure_consumer_group, then recover_pending_messages, and reads only
\* after recovery has returned; a reclaimed entry is processed by the
\* same steps as a newly read one; when both store commands succeed,
\* recovery processes every entry that could be reclaimed.
C36_EnsureRecoverReadOrder ==
    [][\A c \in Consumers :
         /\ (consumer'[c].pc = "ensure" /\ consumer[c].pc # "ensure") =>
               consumer[c].pc = "connecting"
         /\ (consumer'[c].pc = "recover" /\ consumer[c].pc # "recover") =>
               consumer[c].pc = "ensure"
         /\ (consumer'[c].pc = "reading" /\ consumer[c].pc # "reading") =>
               consumer[c].pc = "inner_top"
         /\ (consumer'[c].pc = "inner_top" /\ consumer[c].pc # "inner_top") =>
               consumer[c].pc \in {"recover", "processing", "reading"}
         /\ (consumer'[c].pc = "processing" /\ consumer[c].pc # "processing") =>
               /\ consumer[c].pc \in {"recover", "reading"}
               /\ consumer'[c].mode = IF consumer[c].pc = "recover"
                                      THEN "recover" ELSE "read"
               /\ consumer'[c].await = "handler"
         /\ (RecoveryIn(c) /\ consumer'[c].pc = "processing") =>
               /\ group.created
               /\ consumer'[c].batch = Ascending(Claimable(group))]_vars


\* the step in which the GCRA evaluation of check_tpm by p gets its outcome
TpmEvalIn(p) == proc[p].pc = "ct_eval" /\ proc'[p].pc # "ct_eval"

\* the theoretical arrival time that the admitted evaluations among the
\* first n of a log give on their own, NoTat when none was admitted
RECURSIVE TatOfAdmitted(_, _)
TatOfAdmitted(log, n) ==
    IF n = 0 THEN NoTat
    ELSE LET prev == TatOfAdmitted(log, n - 1)
             e == log[n]
             nowS == e.at * TatDen
             tat == IF prev = NoTat THEN nowS ELSE prev
             base == IF tat > nowS THEN tat ELSE nowS
         IN  IF e.allowed
             THEN base + e.cost * e.limit * (TatDen \div e.rate)
             ELSE prev

\* C37: a denied GCRA evaluation changes nothing: the evaluation of a
\* check_tpm call that does not answer true leaves the stored theoretical
\* arrival time and its expiry as they were.
C37_DeniedChangesNothing ==
    [][\A p \in Procs :
         (TpmEvalIn(p) /\ proc'[p].result # OkBool(TRUE)) => UNCHANGED tpm]_vars

\* C37, the consequence: the stored theoretical arrival time is the one
\* the admitted evaluations give on their own, however many rejected ones
\* came between them, so rejected requests never delay a later one.
C37_TatOfAdmittedOnly ==
    \A k \in Keys :
        tpm[k].tat = TatOfAdmitted(tpmLog[k], Len(tpmLog[k]))

\* an admitted cost, a rejected one, and a cost admitted after it at the
\* instant at which it would have been admitted without the rejected one
C37_Witness ==
    /\ proc["p1"].pc = "idle"
    /\ Len(tpmLog["k1"]) = 3
    /\ tpmLog["k1"][1].allowed
    /\ ~tpmLog["k1"][2].allowed /\ ~tpmLog["k1"][2].undef
    /\ tpmLog["k1"][2].retry > 0
    /\ tpmLog["k1"][3].allowed
    /\ tpmLog["k1"][3].at = tpmLog["k1"][1].at
    /\ tpm["k1"].tat = tpmLog["k1"][1].at * TatDen + 2 * 120 * (TatDen \div 2)


\* the verdict of GCRA_SCRIPT on the cost and limit of p's last check_tpm,
\* submitted again in this state
Resubmitted(p) ==
    GcraScript(tpm[proc[p].key], now, proc[p].limit \div 60, proc[p].limit,
               now, proc[p].amt)

\* retry_after has passed, and no more, since p's rejected call read the
\* clock; no other request was made in between, p being the only caller
RetryAfterPassed(p) ==
    /\ Denied(p)
    /\ now = proc[p].at + proc[p].tpmReply[2]

\* C38: the retry_after of a denied GCRA evaluation is sufficient: for
\* every limit and every cost not larger than the limit, a request denied
\* at time now with retry_after r is admitted when the same cost is
\* submitted at now + r and nothing else was admitted in between.
C38_RetryAfterSufficient ==
    \A p \in Procs : RetryAfterPassed(p) => Resubmitted(p).admitted

\* C38, as far as it holds: retry_after is sufficient for the costs that
\* the script can admit at all, those of at most limit / 60 tokens.
C38_RetryAfterSufficientUpToRate ==
    \A p \in Procs :
        (RetryAfterPassed(p) /\ proc[p].amt <= proc[p].limit \div 60) =>
            Resubmitted(p).admitted

\* a cost within the rate, rejected behind two admitted ones, is admitted
\* once its retry_after has passed
C38_Served ==
    /\ RetryAfterPassed("p1")
    /\ proc["p1"].amt = 1 /\ proc["p1"].limit = 120
    /\ proc["p1"].tpmReply[2] > 0
    /\ Resubmitted("p1").admitted


\* the step in which the config subscriber applies an update
ConfigAppliedIn ==
    /\ sub'[CONFIG_CHANNEL].taken = sub[CONFIG_CHANNEL].taken + 1
    /\ sub'[CONFIG_CHANNEL].last = "applied"

\* C39: applying a config update received over pub/sub does not change
\* the subscriber's credentials: the api_keys of the shared snapshot after
\* the swap equal its api_keys before the swap.
C39_UpdateKeepsApiKeys ==
    [][ConfigAppliedIn => config'.api_keys = config.api_keys]_vars

\* C39, what the swap does: the shared snapshot gets the api_keys of the
\* update, and an update published by publish_config_update has none.
C39_UpdateReplacesApiKeys ==
    [][ConfigAppliedIn => config'.api_keys = {}]_vars


\* two publish_config_update calls with different snapshots have both
\* returned Ok, and the subscriber, still subscribed, has taken every
\* notification that was published
BothPublished ==
    /\ \A p \in Procs :
          /\ mgr[p].pc = "idle"
          /\ mgr[p].op = "publish_config"
          /\ mgr[p].result = "ok"
    /\ mgr["p1"].cfg # mgr["p2"].cfg
    /\ sub[CONFIG_CHANNEL].pc = "listening"
    /\ sub[CONFIG_CHANNEL].inbox = <<>>
    /\ sub[CONFIG_CHANNEL].taken = Len(sent)

\* the subscriber's shared snapshot is the one stored under hyperinfer:config
SnapshotIsStored ==
    /\ cfgKey.present
    /\ config = ConfigFromJson(cfgKey.json).config

\* C40: concurrent publishers converge: when two publish_config_update
\* calls with different snapshots run concurrently, then after both have
\* returned and every notification has been delivered, the subscriber's
\* shared snapshot equals the snapshot stored under hyperinfer:config.
C40_PublishersConverge == BothPublished => SnapshotIsStored

\* C40, as far as it holds: the subscriber ends with the stored snapshot
\* when the call whose SET came last also published last.
C40_ConvergeWhenSameOrder ==
    (BothPublished /\ sent[Len(sent)].ver = cfgHist.ver) => SnapshotIsStored

\* two calls whose SETs and PUBLISHes ran in the same order
C40_SameOrder ==
    /\ BothPublished
    /\ Len(sent) = 2
    /\ sent[1].ver = 1 /\ sent[2].ver = 2
    /\ sent[1].call # sent[2].call
    /\ SnapshotIsStored


\* the limits the claim expects is_allowed to enforce for a key
EffectiveRpm(k) ==
    IF k \in DOMAIN config.quotas
    THEN config.quotas[k].max_requests_per_minute
    ELSE DefaultRpm
EffectiveTpm(k) ==
    IF k \in DOMAIN config.quotas
    THEN config.quotas[k].max_tokens_per_minute
    ELSE DefaultTpm

\* C6: on the chat path the limits is_allowed enforces for a key are the
\* quota values configured for it in Config.quotas when there is such an
\* entry, and 60 RPM / 100000 TPM otherwise: in one window no more chat
\* calls pass the RPM check than the key's RPM limit, and the GCRA script
\* is evaluated against the key's TPM limit.
C6_QuotasEnforced ==
    \A k \in Keys :
        /\ rpmWin[k].admitted[1] + rpmWin[k].admitted[DefaultRpm] <= EffectiveRpm(k)
        /\ \A i \in DOMAIN tpmLog[k] : tpmLog[k][i].limit = EffectiveTpm(k)

InTrace(p, stage) == \E i \in DOMAIN proc[p].trace : proc[p].trace[i] = stage

\* C7: when the store fails under either rate-limit script, is_allowed
\* returns an error, never Ok(true), and chat returns the rate-limit error
\* without resolving the model, calling the provider, recording telemetry
\* or recording usage.
C7_StoreFailureFailsClosed ==
    \A p \in Procs :
        InTrace(p, "store_failed") =>
            /\ proc[p].pc = "idle"
            /\ proc[p].result.kind = "err"
            /\ proc[p].op = "chat" => proc[p].result = ChatErr("rate_limit_store")
            /\ \A stage \in {"admitted", "resolved", "dispatched", "telemetry", "usage"} :
                  ~InTrace(p, stage)

C7_Witness ==
    /\ Completed("p1", "chat")
    /\ proc["p1"].trace = <<"validated", "store_failed">>
    /\ proc["p1"].rpmReply # <<>>
    /\ proc["p1"].result = ChatErr("rate_limit_store")
    /\ rpmWin["k1"].n = 2
    /\ usage["k1"].requests = 1

====
